---- MODULE Spec2Model ----
(***************************************************************************)
(* Model of the spout-backend-aptos reconciliation engine: the polling     *)
(* cycle of PollingService (fetch, filter-new, insert), the order_book     *)
(* store behind SupabaseService, the event normalisation of Web3Service    *)
(* and the KYC-gated mint/burn of MintburnService.                         *)
(*                                                                         *)
(* Strings are sequences of one-character strings; a JavaScript Number     *)
(* that holds an integer is the sequence of decimal digits of its exact    *)
(* value.                                                                  *)
(***************************************************************************)
EXTENDS Integers, Sequences, FiniteSets, Bags, TLC

(***************************************************************************)
(* JavaScript numbers: parseInt of a decimal string yields the nearest     *)
(* IEEE-754 double (round half to even on a 53-bit significand), and       *)
(* Number.prototype.toString prints the shortest decimal that reads back   *)
(* as the same double, in exponent form from 1e21 on.                      *)
(***************************************************************************)
DigitChars == <<"0", "1", "2", "3", "4", "5", "6", "7", "8", "9">>

IsDigitChar(c) == \E d \in 1..10 : DigitChars[d] = c

DigitVal(c) == (CHOOSE d \in 1..10 : DigitChars[d] = c) - 1

RECURSIVE StrToDigits(_)
StrToDigits(s) ==
    IF s = <<>> THEN <<>> ELSE <<DigitVal(Head(s))>> \o StrToDigits(Tail(s))

RECURSIVE DigitsToStr(_)
DigitsToStr(d) ==
    IF d = <<>> THEN <<>> ELSE <<DigitChars[Head(d) + 1]>> \o DigitsToStr(Tail(d))

RECURSIVE StripZeros(_)
StripZeros(d) == IF Len(d) > 1 /\ Head(d) = 0 THEN StripZeros(Tail(d)) ELSE d

Zeros(n) == [i \in 1..n |-> 0]

AllZero(d) == \A i \in 1..Len(d) : d[i] = 0

RECURSIVE NatToDigits(_)
NatToDigits(n) == IF n < 10 THEN <<n>> ELSE NatToDigits(n \div 10) \o <<n % 10>>

\* An integer as 16-bit limbs, least significant first, no leading zero limb.
RECURSIVE TrimLimbs(_)
TrimLimbs(v) ==
    IF v # <<>> /\ v[Len(v)] = 0 THEN TrimLimbs(SubSeq(v, 1, Len(v) - 1)) ELSE v

RECURSIVE MulAdd(_, _, _)
MulAdd(v, mul, carry) ==
    IF v = <<>> THEN (IF carry = 0 THEN <<>> ELSE <<carry>>)
    ELSE LET x == Head(v) * mul + carry
         IN  <<x % 65536>> \o MulAdd(Tail(v), mul, x \div 65536)

RECURSIVE DigitsToLimbs(_, _)
DigitsToLimbs(d, acc) ==
    IF d = <<>> THEN acc ELSE DigitsToLimbs(Tail(d), MulAdd(acc, 10, Head(d)))

\* v divided by 10, from the most significant limb i down: the quotient.
RECURSIVE QuoTen(_, _, _)
QuoTen(v, i, rem) ==
    IF i = 0 THEN <<>>
    ELSE QuoTen(v, i - 1, (rem * 65536 + v[i]) % 10)
         \o <<(rem * 65536 + v[i]) \div 10>>

RECURSIVE ModTen(_, _, _)
ModTen(v, i, rem) ==
    IF i = 0 THEN rem ELSE ModTen(v, i - 1, (rem * 65536 + v[i]) % 10)

RECURSIVE LimbsToDigits(_)
LimbsToDigits(v) ==
    IF v = <<>> THEN <<>>
    ELSE LimbsToDigits(TrimLimbs(QuoTen(v, Len(v), 0))) \o <<ModTen(v, Len(v), 0)>>

RECURSIVE SmallBitLength(_)
SmallBitLength(n) == IF n = 0 THEN 0 ELSE 1 + SmallBitLength(n \div 2)

BitLength(v) ==
    IF v = <<>> THEN 0 ELSE 16 * (Len(v) - 1) + SmallBitLength(v[Len(v)])

Bit(v, i) == (v[i \div 16 + 1] \div 2 ^ (i % 16)) % 2 = 1

LowNonzero(v, j) ==
    \/ \E i \in 1..(j \div 16) : v[i] # 0
    \/ v[j \div 16 + 1] % 2 ^ (j % 16) # 0

ClearLow(v, k) ==
    [i \in 1..Len(v) |->
        IF i < k \div 16 + 1 THEN 0
        ELSE IF i = k \div 16 + 1 THEN (v[i] \div 2 ^ (k % 16)) * 2 ^ (k % 16)
        ELSE v[i]]

RECURSIVE AddAt(_, _, _)
AddAt(v, i, amount) ==
    IF i > Len(v) THEN v \o <<amount>>
    ELSE LET s == v[i] + amount
         IN  IF s < 65536 THEN [v EXCEPT ![i] = s]
             ELSE AddAt([v EXCEPT ![i] = s - 65536], i + 1, 1)

\* Width of the significand of a Number.
MantissaBits == 53

\* The double nearest to the integer v (ties to even), as an integer.
RoundAt(v, k) ==
    IF Bit(v, k - 1) /\ (LowNonzero(v, k - 1) \/ Bit(v, k))
    THEN AddAt(ClearLow(v, k), k \div 16 + 1, 2 ^ (k % 16))
    ELSE ClearLow(v, k)

RoundToDouble(v) ==
    IF BitLength(v) <= MantissaBits THEN v ELSE RoundAt(v, BitLength(v) - MantissaBits)

\* Number(digits): the exact value of the double nearest to the decimal d.
OrZero(n) == IF n = <<>> THEN <<0>> ELSE n

ToNumber(d) ==
    OrZero(LimbsToDigits(RoundToDouble(TrimLimbs(DigitsToLimbs(StripZeros(d), <<>>)))))

\* The decimal with k significant digits closest to m that reads back as m,
\* or <<>> when none does.
ReadsBack(d, m) == ToNumber(d) = m

NearLow(m, k, rem) ==
    \/ AllZero(rem)
    \/ rem[1] < 5
    \/ (rem[1] = 5 /\ AllZero(Tail(rem)) /\ m[k] % 2 = 0)

CloserOf(lo, up, loOk, upOk, nearLo) ==
    IF loOk /\ (nearLo \/ ~upOk) THEN lo
    ELSE IF upOk THEN up
    ELSE <<>>

CandidateOf(m, lo, up, nearLo) ==
    CloserOf(lo, up, ReadsBack(lo, m), ReadsBack(up, m), nearLo)

ShortestCandidate(m, k) ==
    CandidateOf(m,
                SubSeq(m, 1, k) \o Zeros(Len(m) - k),
                LimbsToDigits(AddAt(DigitsToLimbs(SubSeq(m, 1, k), <<>>), 1, 1))
                    \o Zeros(Len(m) - k),
                NearLow(m, k, SubSeq(m, k + 1, Len(m))))

RECURSIVE ShortestDigits(_, _)
ShortestDigits(m, k) ==
    IF k >= Len(m) THEN m
    ELSE IF ShortestCandidate(m, k) # <<>> THEN ShortestCandidate(m, k)
    ELSE ShortestDigits(m, k + 1)

RECURSIVE TrimTrailingZeros(_)
TrimTrailingZeros(d) ==
    IF Len(d) > 1 /\ d[Len(d)] = 0
    THEN TrimTrailingZeros(SubSeq(d, 1, Len(d) - 1)) ELSE d

\* Number.prototype.toString switches to exponent form at 10^21.
ExponentLimit == 21

\* Number.prototype.toString() of an integer-valued Number m.
Exponential(sig, e) ==
    IF Len(sig) = 1 THEN DigitsToStr(sig) \o e
    ELSE <<DigitChars[sig[1] + 1], ".">> \o DigitsToStr(Tail(sig)) \o e

Render(s) ==
    IF Len(s) <= ExponentLimit THEN DigitsToStr(s)
    ELSE Exponential(TrimTrailingZeros(s),
                     <<"e", "+">> \o DigitsToStr(NatToDigits(Len(s) - 1)))

NumberToString(m) == Render(ShortestDigits(m, 1))

\* parseInt(str) for a string of decimal digits, as the events carry.
parseInt(str) == ToNumber(StrToDigits(str))

(***************************************************************************)
(* Event normalisation (Web3Service).                                      *)
(***************************************************************************)
HexChars == <<"0", "1", "2", "3", "4", "5", "6", "7", "8", "9",
              "a", "b", "c", "d", "e", "f">>

UpperHexChars == <<"0", "1", "2", "3", "4", "5", "6", "7", "8", "9",
                   "A", "B", "C", "D", "E", "F">>

IsHexChar(c) == \E d \in 1..16 : HexChars[d] = c \/ UpperHexChars[d] = c

HexVal(c) == (CHOOSE d \in 1..16 : HexChars[d] = c \/ UpperHexChars[d] = c) - 1

\* parseInt(hexChar, 16) of a chunk of at most two characters; -1 is NaN.
parseInt16(chunk) ==
    IF chunk = <<>> \/ ~IsHexChar(chunk[1]) THEN -1
    ELSE IF Len(chunk) = 1 \/ ~IsHexChar(chunk[2]) THEN HexVal(chunk[1])
    ELSE 16 * HexVal(chunk[1]) + HexVal(chunk[2])

UpperLetters == <<"A", "B", "C", "D", "E", "F", "G", "H", "I", "J", "K", "L", "M",
                  "N", "O", "P", "Q", "R", "S", "T", "U", "V", "W", "X", "Y", "Z">>

LowerLetters == <<"a", "b", "c", "d", "e", "f", "g", "h", "i", "j", "k", "l", "m",
                  "n", "o", "p", "q", "r", "s", "t", "u", "v", "w", "x", "y", "z">>

\* String.fromCharCode(code); ToUint16(NaN) is 0. A code outside the letters,
\* digits and underscore is written \xHH.
fromCharCode(code) ==
    LET c == IF code < 0 THEN 0 ELSE code
    IN  IF c \in 48..57 THEN DigitChars[c - 47]
        ELSE IF c \in 65..90 THEN UpperLetters[c - 64]
        ELSE IF c \in 97..122 THEN LowerLetters[c - 96]
        ELSE IF c = 95 THEN "_"
        ELSE "\\x" \o HexChars[c \div 16 + 1] \o HexChars[(c % 16) + 1]

\* String.prototype.replace('0x', ''): the first occurrence is removed.
RECURSIVE Remove0x(_)
Remove0x(s) ==
    IF Len(s) < 2 THEN s
    ELSE IF s[1] = "0" /\ s[2] = "x" THEN SubSeq(s, 3, Len(s))
    ELSE <<s[1]>> \o Remove0x(Tail(s))

RECURSIVE DecodeHex(_)
DecodeHex(hex) ==
    IF hex = <<>> THEN <<>>
    ELSE LET charCode == parseInt16(SubSeq(hex, 1, IF Len(hex) < 2 THEN 1 ELSE 2))
             rest == DecodeHex(SubSeq(hex, 3, Len(hex)))
         IN  IF charCode # 0 THEN <<fromCharCode(charCode)>> \o rest ELSE rest

formatTicker(hexTicker) ==
    LET result == DecodeHex(Remove0x(hexTicker))
    IN  IF result # <<>> THEN result ELSE hexTicker

formatOrderEvent(rawEvent, eventType) ==
    [version        |-> rawEvent.version,
     sequenceNumber |-> rawEvent.sequence_number,
     eventType      |-> eventType,
     user           |-> rawEvent.data.user,
     ticker         |-> formatTicker(rawEvent.data.ticker),
     usdcAmount     |-> parseInt(rawEvent.data.usdc_amount),
     assetAmount    |-> parseInt(rawEvent.data.asset_amount),
     price          |-> parseInt(rawEvent.data.price)]

(***************************************************************************)
(* The ledger's event streams. Event n of a kind (its sequence number) is   *)
(* fixed; the ledger emits them in order.                                  *)
(***************************************************************************)
MaxBuy == 1

MaxSell == 1

MaxTicks == 2

MaxFaults == 2

Chars(str) == [i \in 1..Len(str) |-> SubSeq(str, i, i)]

NatStr(n) == DigitsToStr(NatToDigits(n))

Pick(list, n) == list[(n % Len(list)) + 1]

Kinds == {"BuyOrderCreated", "SellOrderCreated"}

Alice == "0xa11ce"

Bob == "0xb0b"

Users == {Alice, Bob}

\* LQD, usdc, TSLA padded with two zero bytes / GOLD, AAPL
BuyTickers == <<"0x4c5144", "0x75736463", "0x54534c410000">>

SellTickers == <<"0x474f4c44", "0x4141504c">>

\* 2^53 + 1, 10^21, an amount every Number holds / an amount every Number
\* holds, 2^64 - 1
BuyAssetAmounts == <<"9007199254740993", "1000000000000000000000", "2500000">>

SellAssetAmounts == <<"1000000", "18446744073709551615">>

MaxOf(kind) == IF kind = "BuyOrderCreated" THEN MaxBuy ELSE MaxSell

\* How many distinct events of a kind the streams are described for.
StreamLen(kind) ==
    IF kind = "BuyOrderCreated" THEN Len(BuyAssetAmounts) ELSE Len(SellAssetAmounts)

RawEvent(kind, n) ==
    LET buy == kind = "BuyOrderCreated"
    IN  [version         |-> NatStr(7000 + 2 * n + (IF buy THEN 0 ELSE 1)),
         sequence_number |-> NatStr(n),
         type            |-> kind,
         data            |->
            [user         |-> IF buy THEN Pick(<<Alice, Alice, Bob>>, n)
                                     ELSE Pick(<<Alice, Bob>>, n),
             ticker       |-> Chars(IF buy THEN Pick(BuyTickers, n)
                                           ELSE Pick(SellTickers, n)),
             usdc_amount  |-> NatStr(150000000 + n),
             asset_amount |-> Chars(IF buy THEN Pick(BuyAssetAmounts, n)
                                           ELSE Pick(SellAssetAmounts, n)),
             price        |-> NatStr(60000000 + n)]]

\* Limit passed to both fetches.
PageLimit == 5

\* What formatOrderEvent makes of each event of the streams, up to one event
\* more than a page holds.
FormattedEvents ==
    [kind \in Kinds |->
        [n \in 0..PageLimit |-> formatOrderEvent(RawEvent(kind, n), kind)]]

Min(a, b) == IF a < b THEN a ELSE b

\* Variant of fetchOrderEvents that answers with the oldest events of the stream.
fetchOrderEvents_oldest(kind, count, limit, responseOk) ==
    IF ~responseOk THEN [threw |-> TRUE, events |-> <<>>]
    ELSE [threw  |-> FALSE,
          events |-> [i \in 1..Min(limit, count) |-> FormattedEvents[kind][i - 1]]]

\* fetchBuyOrderEvents / fetchSellOrderEvents: the latest `limit` events of the
\* stream, oldest first, or a throw on a transport error or a non-2xx answer.
fetchOrderEvents(kind, count, limit, responseOk) ==
    IF ~responseOk THEN [threw |-> TRUE, events |-> <<>>]
    ELSE [threw  |-> FALSE,
          events |-> [i \in 1..Min(limit, count) |->
                         FormattedEvents[kind][count - Min(limit, count) + i - 1]]]

(***************************************************************************)
(* The order_book table (SupabaseService). A row is what insertOrder       *)
(* inserts; the table is the bag of its rows.                              *)
(***************************************************************************)
StoreOutcomes == {"ok", "error", "throw"}

\* Variant of RowsOf that matches rows of either event type.
RowsOf_anyKind(book, userAddress, eventType, sequenceNumber) ==
    {row \in BagToSet(book) : /\ row.user_address = userAddress
                              /\ row.sequence_number = sequenceNumber}

RowsOf(book, userAddress, eventType, sequenceNumber) ==
    {row \in BagToSet(book) : /\ row.user_address = userAddress
                              /\ row.event_type = eventType
                              /\ row.sequence_number = sequenceNumber}

\* Variant of orderExists that never finds a record.
orderExists_blind(book, userAddress, eventType, sequenceNumber, outcome) ==
    [threw |-> FALSE, value |-> FALSE]

\* Variant of orderExists that answers true when the query fails.
orderExists_failClosed(book, userAddress, eventType, sequenceNumber, outcome) ==
    IF outcome = "ok"
    THEN [threw |-> FALSE,
          value |-> RowsOf(book, userAddress, eventType, sequenceNumber) # {}]
    ELSE [threw |-> FALSE, value |-> TRUE]

\* orderExists: a query error and a thrown exception both answer false.
orderExists(book, userAddress, eventType, sequenceNumber, outcome) ==
    IF outcome = "ok"
    THEN [threw |-> FALSE,
          value |-> RowsOf(book, userAddress, eventType, sequenceNumber) # {}]
    ELSE [threw |-> FALSE, value |-> FALSE]

\* Variant of insertOrder that stores the row also when it reports failure.
insertOrder_storesOnFailure(book, orderRecord, outcome) ==
    [book |-> book (+) SetToBag({orderRecord}), success |-> outcome = "ok"]

\* Variant of insertOrder whose row replaces the table's rows.
insertOrder_replaces(book, orderRecord, outcome) ==
    IF outcome = "ok"
    THEN [book |-> SetToBag({orderRecord}), success |-> TRUE]
    ELSE [book |-> book, success |-> FALSE]

\* insertOrder: [book, success].
insertOrder(book, orderRecord, outcome) ==
    IF outcome = "ok"
    THEN [book |-> book (+) SetToBag({orderRecord}), success |-> TRUE]
    ELSE [book |-> book, success |-> FALSE]

(***************************************************************************)
(* PollingService: one pass of pollForEvents per cycle.                    *)
(***************************************************************************)
DedupKey(event) == <<event.user, event.eventType, event.sequenceNumber>>

\* Variant of filterNewOrders that keeps every event.
filterNewOrders_keepAll(newOrders, event, answer) == Append(newOrders, event)

\* Variant of filterNewOrders that puts a new event in front.
filterNewOrders_prepend(newOrders, event, answer) ==
    IF answer.threw THEN <<event>> \o newOrders
    ELSE IF ~answer.value THEN <<event>> \o newOrders
    ELSE newOrders

\* One iteration of filterNewOrders' loop over an existence answer.
filterNewOrders(newOrders, event, answer) ==
    IF answer.threw THEN Append(newOrders, event)
    ELSE IF ~answer.value THEN Append(newOrders, event)
    ELSE newOrders

\* Number.prototype.toString of the amounts the streams carry, computed once.
AmountStrings ==
    [m \in UNION {{FormattedEvents[kind][n].assetAmount : n \in 0..(StreamLen(kind) - 1)} :
                     kind \in Kinds}
     |-> NumberToString(m)]

toString(m) == AmountStrings[m]

\* The OrderRecord insertNewOrders builds of an event.
orderRecord(event) ==
    [version         |-> event.version,
     sequence_number |-> event.sequenceNumber,
     event_type      |-> event.eventType,
     user_address    |-> event.user,
     ticker          |-> event.ticker,
     usdc_amount     |-> event.usdcAmount,
     asset_amount    |-> toString(event.assetAmount),
     price           |-> event.price]

(***************************************************************************)
(* MintburnService: the KYC registry and the token module on the ledger.   *)
(***************************************************************************)
TxOutcomes == {"ok", "failed", "throw"}

QueryOutcomes == {"ok", "throw"}

\* An absent property of a result object.
Undefined == "(absent)"

TxHash == "0xhash"

ErrorText == "transport error"

\* Variant of isUserVerified that answers true when the view call throws.
isUserVerified_failOpen(registry, userAddress, outcome) ==
    IF outcome = "ok" THEN registry[userAddress] ELSE TRUE

\* isUserVerified: the registry's answer, or false when the view call throws.
isUserVerified(registry, userAddress, outcome) ==
    IF outcome = "ok" THEN registry[userAddress] ELSE FALSE

\* Variant of TransactionResult whose catch block drops the message.
TransactionResult_noMessage(outcome) ==
    IF outcome = "throw"
    THEN [hash |-> "", success |-> FALSE, errorMessage |-> Undefined]
    ELSE [hash |-> TxHash, success |-> outcome = "ok", errorMessage |-> Undefined]

\* What a build / signAndSubmit / waitForTransaction block returns: the executed
\* transaction's success under its hash, or the catch block's result.
TransactionResult(outcome) ==
    IF outcome = "throw"
    THEN [hash |-> "", success |-> FALSE, errorMessage |-> ErrorText]
    ELSE [hash |-> TxHash, success |-> outcome = "ok", errorMessage |-> Undefined]

\* Variant of setUserVerification whose transaction leaves the registry alone.
setUserVerification_noEffect(registry, userAddress, isVerified, outcome) ==
    [registry |-> registry, result |-> TransactionResult(outcome)]

\* setUserVerification: [registry, result].
setUserVerification(registry, userAddress, isVerified, outcome) ==
    [registry |-> IF outcome = "ok"
                  THEN [registry EXCEPT ![userAddress] = isVerified]
                  ELSE registry,
     result   |-> TransactionResult(outcome)]

\* A template literal's rendering of a value.
Interpolate(value) == IF value = Undefined THEN "undefined" ELSE value

\* The result mintTokens / adminBurnTokens return when auto-verification fails.
AutoVerifyRejected(fn, user, verificationResult) ==
    [hash         |-> "",
     success      |-> FALSE,
     errorMessage |-> <<"Failed to auto-verify user", user,
                        IF fn = "mint" THEN "Minting operation rejected:"
                                       ELSE "Burning operation rejected:",
                        Interpolate(verificationResult.errorMessage)>>]

\* Variants of the gate that go on to the transaction whatever was answered.
AfterQuery_skip(isVerified) == "submit"

AfterAutoVerify_ignore(verificationResult) == "submit"

\* Variant of the gate that auto-verifies whatever was answered.
AfterQuery_alwaysVerify(isVerified) == "setUserVerification"

\* The gate of mintTokens / adminBurnTokens after the registry was asked:
\* which step comes next.
AfterQuery(isVerified) == IF isVerified THEN "submit" ELSE "setUserVerification"

AfterAutoVerify(verificationResult) ==
    IF ~verificationResult.success THEN "rejected" ELSE "submit"

(***************************************************************************)
(* Dispatch of the new events to the token module.                         *)
(***************************************************************************)
\* Variant of the supported set that also holds GOLD.
SupportedTickers_withGold ==
    {Chars("USD"), Chars("USDC"), Chars("LQD"), Chars("TSLA"), Chars("AAPL"), Chars("GOLD")}

SupportedTickers == {Chars("USD"), Chars("USDC"), Chars("LQD"), Chars("TSLA"), Chars("AAPL")}

NoTokenClass == <<>>

toUpperCaseChar(c) ==
    IF \E i \in 1..26 : LowerLetters[i] = c
    THEN UpperLetters[CHOOSE i \in 1..26 : LowerLetters[i] = c]
    ELSE c

toUpperCase(str) == [i \in 1..Len(str) |-> toUpperCaseChar(str[i])]

\* Variant of MapTicker that accepts a ticker that begins a supported symbol.
MapTicker_prefix(ticker) ==
    LET begun == {T \in SupportedTickers :
                     /\ ticker # <<>>
                     /\ Len(ticker) <= Len(T)
                     /\ SubSeq(T, 1, Len(ticker)) = toUpperCase(ticker)}
    IN  IF begun # {} THEN CHOOSE T \in begun : TRUE ELSE NoTokenClass

\* Variant of MapTicker that takes every ticker for a TokenClass.
MapTicker_any(ticker) == toUpperCase(ticker)

\* The TokenClass of a normalised ticker, or NoTokenClass.
MapTicker(ticker) ==
    IF toUpperCase(ticker) \in SupportedTickers THEN toUpperCase(ticker) ELSE NoTokenClass

UnsupportedResult(ticker) ==
    [hash |-> "", success |-> FALSE, errorMessage |-> <<"Unsupported ticker", ticker>>]

\* Variant of OperationOf that sizes the operation by the USDC amount.
OperationOf_byUsdcAmount(event) ==
    [fn        |-> IF event.eventType = "BuyOrderCreated" THEN "mint" ELSE "admin_burn_from",
     tokenType |-> MapTicker(event.ticker),
     user      |-> event.user,
     amount    |-> event.usdcAmount]

\* The operation dispatched for an event: mint on buy, burn on sell.
OperationOf(event) ==
    [fn        |-> IF event.eventType = "BuyOrderCreated" THEN "mint" ELSE "admin_burn_from",
     tokenType |-> MapTicker(event.ticker),
     user      |-> event.user,
     amount    |-> event.assetAmount]

(***************************************************************************)
(* State.                                                                  *)
(***************************************************************************)
VARIABLES
    emitted,      \* per kind: how many events the ledger has emitted
    order_book,   \* the rows of the order_book table
    kycRegistry,  \* per identity: verified on the ledger
    submitted,    \* the bag of transactions this service submitted
    ticks,        \* scheduler ticks so far
    faults,       \* failed external calls so far
    cyc,          \* per tick: the locals of that pollForEvents invocation
    http,         \* the exchanges of the HTTP endpoints, oldest first
    evaluated     \* the applications of a pure function, oldest first

vars == <<emitted, order_book, kycRegistry, submitted, ticks, faults, cyc, http,
          evaluated>>

Slots == 1..MaxTicks

NoResult == [hash |-> "", success |-> FALSE, errorMessage |-> Undefined]

IdleCycle ==
    [pc                 |-> "idle",
     buyOrderEvents     |-> <<>>,
     sellOrderEvents    |-> <<>>,
     newBuyOrderEvents  |-> <<>>,
     newSellOrderEvents |-> <<>>,
     orderEvents        |-> <<>>,
     idx                |-> 1,
     successCount       |-> 0,
     failureCount       |-> 0,
     isVerified         |-> FALSE,
     verificationResult |-> NoResult,
     results            |-> <<>>,
     hadRecord          |-> {},
     startedDuring      |-> {},
     trace              |-> <<>>]

Init ==
    /\ emitted = [kind \in Kinds |-> 0]
    /\ order_book = EmptyBag
    /\ kycRegistry = [u \in Users |-> FALSE]
    /\ submitted = EmptyBag
    /\ ticks = 0
    /\ faults = 0
    /\ cyc = [c \in Slots |-> IdleCycle]
    /\ http = <<>>
    /\ evaluated = <<>>

\* Variant of NewOrders that puts the sell events first.
NewOrders_sellFirst(newBuyOrderEvents, newSellOrderEvents) ==
    newSellOrderEvents \o newBuyOrderEvents

\* [...newBuyOrderEvents, ...newSellOrderEvents]
NewOrders(newBuyOrderEvents, newSellOrderEvents) ==
    newBuyOrderEvents \o newSellOrderEvents

\* The loops of a cycle: a loop whose list is exhausted hands over to the next
\* phase; the insert phase takes the new buy events, then the new sell events.
RECURSIVE Settle(_)
Settle(r) ==
    IF r.pc = "filterBuy" /\ r.idx > Len(r.buyOrderEvents)
    THEN Settle([r EXCEPT !.pc = "filterSell", !.idx = 1])
    ELSE IF r.pc = "filterSell" /\ r.idx > Len(r.sellOrderEvents)
    THEN Settle([r EXCEPT !.pc = "insert", !.idx = 1,
                          !.orderEvents = NewOrders(r.newBuyOrderEvents,
                                                    r.newSellOrderEvents)])
    ELSE IF r.pc = "insert" /\ r.idx > Len(r.orderEvents)
    THEN Settle([r EXCEPT !.pc = "dispatch", !.idx = 1])
    ELSE IF r.pc = "dispatch" /\ r.idx > Len(r.orderEvents)
    THEN [r EXCEPT !.pc = "done"]
    ELSE r

Running(c) == cyc[c].pc \notin {"idle", "done", "stopped"}

KeysOf(book) ==
    {<<row.user_address, row.event_type, row.sequence_number>> : row \in BagToSet(book)}

Fault(failed) ==
    /\ failed => faults < MaxFaults
    /\ faults' = IF failed THEN faults + 1 ELSE faults

\* The ledger emits the next event of a kind. Only the fetches observe the
\* streams, so emission is interleaved with the cycles up to their fetches.
Emit(kind) ==
    /\ emitted[kind] < MaxOf(kind)
    /\ \/ \A c \in Slots : ~Running(c)
       \/ \E c \in Slots : cyc[c].pc \in {"fetchBuy", "fetchSell"}
    /\ emitted' = [emitted EXCEPT ![kind] = @ + 1]
    /\ UNCHANGED <<evaluated, http, order_book, kycRegistry, submitted, ticks, faults, cyc>>

\* @Cron(EVERY_10_SECONDS): the scheduler calls pollForEvents; nothing makes it
\* wait for the invocation before.
StartCycle(c) ==
    /\ ticks < MaxTicks
    /\ c = ticks + 1
    /\ ticks' = ticks + 1
    /\ cyc' = [cyc EXCEPT ![c] =
                  [IdleCycle EXCEPT !.pc = "fetchBuy", !.hadRecord = KeysOf(order_book),
                                    !.startedDuring = {d \in Slots : Running(d)}]]
    /\ UNCHANGED <<evaluated, http, emitted, order_book, kycRegistry, submitted, faults>>

\* Variant of Tick that skips the tick while an invocation is in progress.
Tick_guarded(c) ==
    /\ \A d \in Slots : ~Running(d)
    /\ StartCycle(c)

Tick(c) == StartCycle(c)

\* The scheduling contract of the design: a tick finds no cycle running.
TickAlone(c) ==
    /\ \A d \in Slots : ~Running(d)
    /\ StartCycle(c)

\* Variant of Aborted in which the cycle goes on to the existence checks.
Aborted_goesOn(r, entry) ==
    Settle([r EXCEPT !.pc = "filterBuy", !.idx = 1, !.trace = Append(@, entry)])

\* pollForEvents' catch block: a fetch that throws ends the invocation.
Aborted(r, entry) ==
    [r EXCEPT !.pc = "done", !.trace = Append(@, entry)]

FetchBuy(c) ==
    /\ cyc[c].pc = "fetchBuy"
    /\ \E responseOk \in BOOLEAN :
        LET got == fetchOrderEvents("BuyOrderCreated", emitted["BuyOrderCreated"],
                                    PageLimit, responseOk)
            r == cyc[c]
        IN  /\ Fault(got.threw)
            /\ cyc' = [cyc EXCEPT ![c] =
                  IF got.threw
                  THEN Aborted(r, [op |-> "fetchBuy", threw |-> TRUE])
                  ELSE [r EXCEPT !.pc = "fetchSell", !.buyOrderEvents = got.events,
                                 !.trace = Append(@, [op |-> "fetchBuy", threw |-> FALSE])]]
    /\ UNCHANGED <<evaluated, http, emitted, order_book, kycRegistry, submitted, ticks>>

FetchSell(c) ==
    /\ cyc[c].pc = "fetchSell"
    /\ \E responseOk \in BOOLEAN :
        LET got == fetchOrderEvents("SellOrderCreated", emitted["SellOrderCreated"],
                                    PageLimit, responseOk)
            r == cyc[c]
        IN  /\ Fault(got.threw)
            /\ cyc' = [cyc EXCEPT ![c] =
                  IF got.threw
                  THEN Aborted(r, [op |-> "fetchSell", threw |-> TRUE])
                  ELSE Settle([r EXCEPT !.pc = "filterBuy", !.idx = 1,
                                        !.sellOrderEvents = got.events,
                                        !.trace = Append(@, [op |-> "fetchSell",
                                                             threw |-> FALSE])])]
    /\ UNCHANGED <<evaluated, http, emitted, order_book, kycRegistry, submitted, ticks>>

\* One iteration of filterNewOrders(buyOrderEvents, 'BuyOrderCreated').
FilterBuy(c) ==
    /\ cyc[c].pc = "filterBuy"
    /\ \E outcome \in StoreOutcomes :
        LET r == cyc[c]
            event == r.buyOrderEvents[r.idx]
            answer == orderExists(order_book, event.user, "BuyOrderCreated",
                                  event.sequenceNumber, outcome)
        IN  /\ Fault(outcome # "ok")
            /\ cyc' = [cyc EXCEPT ![c] = Settle(
                  [r EXCEPT !.idx = @ + 1,
                            !.newBuyOrderEvents = filterNewOrders(@, event, answer),
                            !.trace = Append(@, [op |-> "orderExists",
                                                 key |-> <<event.user, "BuyOrderCreated",
                                                           event.sequenceNumber>>,
                                                 outcome |-> outcome,
                                                 value |-> answer.value])])]
    /\ UNCHANGED <<evaluated, http, emitted, order_book, kycRegistry, submitted, ticks>>

\* One iteration of filterNewOrders(sellOrderEvents, 'SellOrderCreated').
FilterSell(c) ==
    /\ cyc[c].pc = "filterSell"
    /\ \E outcome \in StoreOutcomes :
        LET r == cyc[c]
            event == r.sellOrderEvents[r.idx]
            answer == orderExists(order_book, event.user, "SellOrderCreated",
                                  event.sequenceNumber, outcome)
        IN  /\ Fault(outcome # "ok")
            /\ cyc' = [cyc EXCEPT ![c] = Settle(
                  [r EXCEPT !.idx = @ + 1,
                            !.newSellOrderEvents = filterNewOrders(@, event, answer),
                            !.trace = Append(@, [op |-> "orderExists",
                                                 key |-> <<event.user, "SellOrderCreated",
                                                           event.sequenceNumber>>,
                                                 outcome |-> outcome,
                                                 value |-> answer.value])])]
    /\ UNCHANGED <<evaluated, http, emitted, order_book, kycRegistry, submitted, ticks>>

\* Variant of Inserted that gives up the remaining inserts after a failure.
Inserted_abortOnFailure(c, r, event, outcome, done) ==
    /\ order_book' = done.book
    /\ cyc' = [cyc EXCEPT ![c] = Settle(
          [r EXCEPT !.idx = IF done.success THEN @ + 1 ELSE Len(r.orderEvents) + 1,
                    !.successCount = IF done.success THEN @ + 1 ELSE @,
                    !.failureCount = IF done.success THEN @ ELSE @ + 1,
                    !.trace = Append(@, [op |-> "insertOrder",
                                         key |-> DedupKey(event),
                                         outcome |-> outcome])])]

\* insertNewOrders after insertOrder answered: the counters move on.
Inserted(c, r, event, outcome, done) ==
    /\ order_book' = done.book
    /\ cyc' = [cyc EXCEPT ![c] = Settle(
          [r EXCEPT !.idx = @ + 1,
                    !.successCount = IF done.success THEN @ + 1 ELSE @,
                    !.failureCount = IF done.success THEN @ ELSE @ + 1,
                    !.trace = Append(@, [op |-> "insertOrder",
                                         key |-> DedupKey(event),
                                         outcome |-> outcome])])]

\* One iteration of insertNewOrders' loop.
InsertOrder(c) ==
    /\ cyc[c].pc = "insert"
    /\ \E outcome \in StoreOutcomes :
        LET r == cyc[c]
            event == r.orderEvents[r.idx]
        IN  /\ Fault(outcome # "ok")
            /\ Inserted(c, r, event, outcome,
                        insertOrder(order_book, orderRecord(event), outcome))
    /\ UNCHANGED <<evaluated, http, emitted, kycRegistry, submitted, ticks>>

\* Dispatch of the next new event: an unsupported ticker is recorded and the
\* ledger is left alone; otherwise mintTokens / adminBurnTokens is entered.
Dispatch(c) ==
    /\ cyc[c].pc = "dispatch"
    /\ LET r == cyc[c]
           event == r.orderEvents[r.idx]
       IN  cyc' = [cyc EXCEPT ![c] =
              IF MapTicker(event.ticker) = NoTokenClass
              THEN Settle([r EXCEPT !.idx = @ + 1,
                                    !.results = Append(@, UnsupportedResult(event.ticker)),
                                    !.trace = Append(@, [op |-> "unsupported",
                                                         key |-> DedupKey(event)])])
              ELSE [r EXCEPT !.pc = "isUserVerified"]]
    /\ UNCHANGED <<evaluated, http, emitted, order_book, kycRegistry, submitted, ticks, faults>>

\* mintTokens / adminBurnTokens: the registry is asked.
IsUserVerified(c) ==
    /\ cyc[c].pc = "isUserVerified"
    /\ \E outcome \in QueryOutcomes :
        LET r == cyc[c]
            event == r.orderEvents[r.idx]
            answer == isUserVerified(kycRegistry, OperationOf(event).user, outcome)
        IN  /\ Fault(outcome # "ok")
            /\ cyc' = [cyc EXCEPT ![c] =
                  [r EXCEPT !.pc = AfterQuery(answer),
                            !.isVerified = answer,
                            !.verificationResult = NoResult,
                            !.trace = Append(@, [op |-> "isUserVerified",
                                                 key |-> DedupKey(event),
                                                 outcome |-> outcome,
                                                 value |-> answer])]]
    /\ UNCHANGED <<evaluated, http, emitted, order_book, kycRegistry, submitted, ticks>>

\* mintTokens / adminBurnTokens: auto-verification of an unverified identity.
SetUserVerification(c) ==
    /\ cyc[c].pc = "setUserVerification"
    /\ \E outcome \in TxOutcomes :
        LET r == cyc[c]
            event == r.orderEvents[r.idx]
            op == OperationOf(event)
            done == setUserVerification(kycRegistry, op.user, TRUE, outcome)
            next == AfterAutoVerify(done.result)
            entry == [op |-> "setUserVerification", key |-> DedupKey(event),
                      user |-> op.user, isVerified |-> TRUE, outcome |-> outcome]
        IN  /\ Fault(outcome # "ok")
            /\ kycRegistry' = done.registry
            /\ submitted' = submitted (+) SetToBag({entry})
            /\ cyc' = [cyc EXCEPT ![c] =
                  IF next = "rejected"
                  THEN Settle([r EXCEPT !.pc = "dispatch", !.idx = @ + 1,
                                        !.verificationResult = done.result,
                                        !.results = Append(@, AutoVerifyRejected(
                                                        op.fn, op.user, done.result)),
                                        !.trace = Append(@, entry)])
                  ELSE [r EXCEPT !.pc = next,
                                 !.verificationResult = done.result,
                                 !.trace = Append(@, entry)]]
    /\ UNCHANGED <<evaluated, http, emitted, order_book, ticks>>

\* Variant of AfterSubmit that submits a failed transaction again.
AfterSubmit_retry(outcome) == IF outcome = "ok" THEN "return" ELSE "submit"

\* mintTokens / adminBurnTokens after the transaction block: the try block and
\* the catch block both return the outcome.
AfterSubmit(outcome) == "return"

\* mintTokens / adminBurnTokens: the mint or admin_burn_from transaction.
SubmitMutation(c) ==
    /\ cyc[c].pc = "submit"
    /\ \E outcome \in TxOutcomes :
        LET r == cyc[c]
            event == r.orderEvents[r.idx]
            op == OperationOf(event)
            entry == [op |-> op.fn, key |-> DedupKey(event), user |-> op.user,
                      tokenType |-> op.tokenType, amount |-> op.amount,
                      outcome |-> outcome]
        IN  /\ Fault(outcome # "ok")
            /\ submitted' = submitted (+) SetToBag({entry})
            /\ cyc' = [cyc EXCEPT ![c] =
                  IF AfterSubmit(outcome) = "submit"
                  THEN [r EXCEPT !.trace = Append(@, entry)]
                  ELSE Settle([r EXCEPT !.pc = "dispatch", !.idx = @ + 1,
                                        !.results = Append(@, TransactionResult(outcome)),
                                        !.trace = Append(@, entry)])]
    /\ UNCHANGED <<evaluated, http, emitted, order_book, kycRegistry, ticks>>

\* The process stops after the inserts of cycle c and before the dispatch of
\* its next event; every invocation in progress is lost with it. The scheduler
\* of the restarted process goes on ticking.
ProcessStop(c) ==
    /\ cyc[c].pc = "dispatch"
    /\ Fault(TRUE)
    /\ cyc' = [d \in Slots |-> IF Running(d) THEN [cyc[d] EXCEPT !.pc = "stopped"]
                                             ELSE cyc[d]]
    /\ UNCHANGED <<evaluated, http, emitted, order_book, kycRegistry, submitted, ticks>>

CycleStep(c) ==
    \/ FetchBuy(c)
    \/ FetchSell(c)
    \/ FilterBuy(c)
    \/ FilterSell(c)
    \/ InsertOrder(c)
    \/ Dispatch(c)
    \/ IsUserVerified(c)
    \/ SetUserVerification(c)
    \/ SubmitMutation(c)

Next ==
    \/ \E kind \in Kinds : Emit(kind)
    \/ \E c \in Slots : Tick(c)
    \/ \E c \in Slots : CycleStep(c)
    \/ \E c \in Slots : ProcessStop(c)

Spec == Init /\ [][Next]_vars

NextSeq ==
    \/ \E kind \in Kinds : Emit(kind)
    \/ \E c \in Slots : TickAlone(c)
    \/ \E c \in Slots : CycleStep(c)
    \/ \E c \in Slots : ProcessStop(c)

SpecSeq == Init /\ [][NextSeq]_vars

\* The service starts against streams that already hold events.
InitBacklog ==
    /\ emitted \in [Kinds -> 0..StreamLen("BuyOrderCreated")]
    /\ \A kind \in Kinds : emitted[kind] <= StreamLen(kind)
    /\ order_book = EmptyBag
    /\ kycRegistry = [u \in Users |-> FALSE]
    /\ submitted = EmptyBag
    /\ ticks = 0
    /\ faults = 0
    /\ cyc = [c \in Slots |-> IdleCycle]
    /\ http = <<>>
    /\ evaluated = <<>>

SpecBacklog == InitBacklog /\ [][NextSeq]_vars

(***************************************************************************)
(* AppController: POST /kyc/verify.                                        *)
(***************************************************************************)
MaxRequests == 3

\* The userAddress of a request body: an address, the empty string, or none.
BodyAddresses == Users \cup {"", Undefined}

\* !userAddress
Missing(userAddress) == userAddress \in {"", Undefined}

\* Variant of verifyKyc that reports success whatever the request returned.
verifyKyc_alwaysSuccess(registry, body, outcome) ==
    IF Missing(body.userAddress)
    THEN [registry |-> registry,
          requests |-> <<>>,
          response |-> [success |-> FALSE, transactionHash |-> Undefined,
                        userAddress |-> "", error |-> "userAddress is required"]]
    ELSE LET done == setUserVerification(registry, body.userAddress, TRUE, outcome)
         IN  [registry |-> done.registry,
              requests |-> <<[op |-> "setUserVerification", key |-> <<>>,
                              user |-> body.userAddress, isVerified |-> TRUE,
                              outcome |-> outcome]>>,
              response |-> [success |-> TRUE,
                            transactionHash |-> done.result.hash,
                            userAddress |-> body.userAddress,
                            error |-> done.result.errorMessage]]

\* Variant of verifyKyc that asks for the identity's verification to be unset.
verifyKyc_revokes(registry, body, outcome) ==
    IF Missing(body.userAddress)
    THEN [registry |-> registry,
          requests |-> <<>>,
          response |-> [success |-> FALSE, transactionHash |-> Undefined,
                        userAddress |-> "", error |-> "userAddress is required"]]
    ELSE LET done == setUserVerification(registry, body.userAddress, FALSE, outcome)
         IN  [registry |-> done.registry,
              requests |-> <<[op |-> "setUserVerification", key |-> <<>>,
                              user |-> body.userAddress, isVerified |-> FALSE,
                              outcome |-> outcome]>>,
              response |-> [success |-> done.result.success,
                            transactionHash |-> done.result.hash,
                            userAddress |-> body.userAddress,
                            error |-> done.result.errorMessage]]

\* verifyKyc: [registry, requests, response]; requests are the set_verified
\* transactions it issued. A response field that is not set is Undefined.
verifyKyc(registry, body, outcome) ==
    IF Missing(body.userAddress)
    THEN [registry |-> registry,
          requests |-> <<>>,
          response |-> [success |-> FALSE, transactionHash |-> Undefined,
                        userAddress |-> "", error |-> "userAddress is required"]]
    ELSE LET done == setUserVerification(registry, body.userAddress, TRUE, outcome)
         IN  [registry |-> done.registry,
              requests |-> <<[op |-> "setUserVerification", key |-> <<>>,
                              user |-> body.userAddress, isVerified |-> TRUE,
                              outcome |-> outcome]>>,
              response |-> [success |-> done.result.success,
                            transactionHash |-> done.result.hash,
                            userAddress |-> body.userAddress,
                            error |-> done.result.errorMessage]]

\* A client posts to /kyc/verify.
KycVerify ==
    /\ Len(http) < MaxRequests
    /\ \E userAddress \in BodyAddresses : \E outcome \in TxOutcomes :
        LET body == [userAddress |-> userAddress]
            done == verifyKyc(kycRegistry, body, outcome)
        IN  /\ kycRegistry' = done.registry
            /\ submitted' = submitted (+) SetToBag({done.requests[i] :
                                                      i \in 1..Len(done.requests)})
            /\ http' = Append(http, [route |-> "kyc/verify", body |-> body,
                                     requests |-> done.requests,
                                     response |-> done.response])
    /\ UNCHANGED <<evaluated, emitted, order_book, ticks, faults, cyc>>

NextKyc == KycVerify

SpecKyc == Init /\ [][NextKyc]_vars

\* getKycStatus: isUserVerified answers false when its view call throws and
\* never throws itself, so the handler's catch block is not entered.
getKycStatus(registry, userAddress, outcome) ==
    [success     |-> TRUE,
     userAddress |-> userAddress,
     isVerified  |-> isUserVerified(registry, userAddress, outcome),
     error       |-> Undefined]

\* A client gets /kyc/status/:userAddress.
KycStatus ==
    /\ Len(http) < MaxRequests
    /\ \E userAddress \in Users : \E outcome \in QueryOutcomes :
          http' = Append(http, [route |-> "kyc/status",
                                body |-> [userAddress |-> userAddress],
                                requests |-> <<[op |-> "isUserVerified", key |-> <<>>,
                                                user |-> userAddress,
                                                outcome |-> outcome]>>,
                                registered |-> kycRegistry[userAddress],
                                response |-> getKycStatus(kycRegistry, userAddress,
                                                          outcome)])
    /\ UNCHANGED <<evaluated, emitted, order_book, kycRegistry, submitted, ticks, faults, cyc>>

SpecKycStatus == Init /\ [][KycVerify \/ KycStatus]_vars

(***************************************************************************)
(* The ticker mapping on its own, over every short ticker of an alphabet   *)
(* that spells USD and USDC in both cases.                                 *)
(***************************************************************************)
MaxTickerLen == 4

TickerAlphabet == {"U", "S", "D", "C", "T", "u", "s", "d", "c"}

Tickers == UNION {[1..n -> TickerAlphabet] : n \in 0..MaxTickerLen}

\* The dispatch maps one ticker.
MapTickerCall ==
    /\ evaluated = <<>>
    /\ \E ticker \in Tickers :
          evaluated' = <<[fn |-> "MapTicker", arg |-> ticker, value |-> MapTicker(ticker)]>>
    /\ UNCHANGED <<emitted, order_book, kycRegistry, submitted, ticks, faults, cyc, http>>

SpecMapTicker == Init /\ [][MapTickerCall]_vars

(***************************************************************************)
(* Ticker normalisation on its own, over tickers of a few bytes: letters,  *)
(* the zero byte, and a byte that is not hexadecimal.                      *)
(***************************************************************************)
MaxTickerBytes == 3

RECURSIVE Flatten(_)
Flatten(chunks) == IF chunks = <<>> THEN <<>> ELSE Head(chunks) \o Flatten(Tail(chunks))

HexTickers ==
    {<<"0", "x">> \o Flatten(bytes) :
        bytes \in UNION {[1..n -> {<<"4", "c">>, <<"5", "1">>, <<"4", "4">>,
                                   <<"0", "0">>, <<"z", "z">>}] :
                            n \in 0..MaxTickerBytes}}

\* formatOrderEvent normalises the ticker of one raw event.
FormatTickerCall ==
    /\ evaluated = <<>>
    /\ \E hexTicker \in HexTickers :
          evaluated' = <<[fn |-> "formatTicker", arg |-> hexTicker,
                          value |-> formatTicker(hexTicker)]>>
    /\ UNCHANGED <<emitted, order_book, kycRegistry, submitted, ticks, faults, cyc, http>>

SpecFormatTicker == Init /\ [][FormatTickerCall]_vars

(***************************************************************************)
(* Display scaling (PollingService.formatPrice / formatAmount). A BigInt   *)
(* is the sequence of decimal digits of its value, without leading zeros;  *)
(* `/` and `%` are long division by repeated subtraction.                  *)
(***************************************************************************)
\* BigInt(str) for a string of decimal digits.
BigInt(str) == StripZeros(OrZero(StrToDigits(str)))

LessDigits(a, b) ==
    \/ Len(a) < Len(b)
    \/ /\ Len(a) = Len(b)
       /\ \E i \in 1..Len(a) : /\ a[i] < b[i]
                               /\ \A j \in 1..(i - 1) : a[j] = b[j]

\* a - b digit by digit from the right, for digit sequences of one length.
RECURSIVE SubBorrow(_, _, _)
SubBorrow(a, b, borrow) ==
    IF a = <<>> THEN <<>>
    ELSE SubBorrow(SubSeq(a, 1, Len(a) - 1), SubSeq(b, 1, Len(b) - 1),
                   IF a[Len(a)] - b[Len(b)] - borrow < 0 THEN 1 ELSE 0)
         \o <<(a[Len(a)] - b[Len(b)] - borrow + 10) % 10>>

\* How often divisor goes into rem, and what is left.
RECURSIVE Reduce(_, _, _)
Reduce(rem, divisor, q) ==
    IF LessDigits(rem, divisor) THEN [q |-> q, rem |-> rem]
    ELSE Reduce(StripZeros(SubBorrow(rem, Zeros(Len(rem) - Len(divisor)) \o divisor, 0)),
                divisor, q + 1)

RECURSIVE LongDivide(_, _, _, _, _)
LongDivide(a, i, rem, divisor, quo) ==
    IF i > Len(a) THEN [quo |-> StripZeros(OrZero(quo)), rem |-> rem]
    ELSE LongDivide(a, i + 1,
                    Reduce(StripZeros(rem \o <<a[i]>>), divisor, 0).rem, divisor,
                    quo \o <<Reduce(StripZeros(rem \o <<a[i]>>), divisor, 0).q>>)

\* [quo |-> a / divisor, rem |-> a % divisor] of non-negative BigInts.
DivMod(a, divisor) == LongDivide(a, 1, <<0>>, divisor, <<>>)

\* Variant of padStart that leaves the string as it is.
padStart_none(str, targetLength) == str

\* str.padStart(targetLength, '0')
padStart(str, targetLength) ==
    IF Len(str) >= targetLength THEN str
    ELSE [i \in 1..(targetLength - Len(str)) |-> "0"] \o str

\* str.replace(/0+$/, '')
RECURSIVE RemoveTrailingZeroChars(_)
RemoveTrailingZeroChars(str) ==
    IF str # <<>> /\ str[Len(str)] = "0"
    THEN RemoveTrailingZeroChars(SubSeq(str, 1, Len(str) - 1)) ELSE str

\* 10 ** decimals, a Number.
TenToThe(decimals) == ToNumber(<<1>> \o Zeros(decimals))

PriceDivisor == StrToDigits(<<"1", "0", "0", "0", "0", "0", "0", "0", "0", "0",
                              "0", "0", "0", "0", "0", "0", "0", "0", "0">>)

PriceDecimalPlaces == 6

PricePad == 18

priceString(wholePart, fractionalPart) ==
    DigitsToStr(wholePart) \o <<".">>
        \o SubSeq(padStart(DigitsToStr(fractionalPart), PricePad), 1, PriceDecimalPlaces)

\* formatPrice(price) for a price of decimal digits.
formatPrice(price) ==
    LET parts == DivMod(BigInt(price), PriceDivisor)
    IN  priceString(parts.quo, parts.rem)

amountParts(wholePart, fractionalPart, decimals) ==
    IF fractionalPart = <<0>> THEN DigitsToStr(wholePart)
    ELSE IF RemoveTrailingZeroChars(padStart(DigitsToStr(fractionalPart), decimals)) # <<>>
    THEN DigitsToStr(wholePart) \o <<".">>
         \o RemoveTrailingZeroChars(padStart(DigitsToStr(fractionalPart), decimals))
    ELSE DigitsToStr(wholePart)

\* formatAmount(amount, decimals) for an amount of decimal digits.
formatAmount(amount, decimals) ==
    LET parts == DivMod(BigInt(amount), TenToThe(decimals))
    IN  amountParts(parts.quo, parts.rem, decimals)

\* Amounts of up to MaxAmountChunks groups of digits; the token decimals in use.
MaxAmountChunks == 4

DisplayAmounts ==
    {Flatten(chunks) :
        chunks \in UNION {[1..n -> {<<"0">>, <<"1">>, <<"0", "0", "0", "0", "0", "0">>,
                                    <<"0", "0", "0", "1", "2", "0">>,
                                    <<"9", "9", "9", "9", "9", "9">>}] :
                             n \in 1..MaxAmountChunks}}

FormatAmountCall ==
    /\ evaluated = <<>>
    /\ \E amount \in DisplayAmounts, decimals \in {6, 18} :
          evaluated' = <<[fn |-> "formatAmount", arg |-> amount, decimals |-> decimals,
                          value |-> formatAmount(amount, decimals)]>>
    /\ UNCHANGED <<emitted, order_book, kycRegistry, submitted, ticks, faults, cyc, http>>

FormatPriceCall ==
    /\ evaluated = <<>>
    /\ \E price \in DisplayAmounts :
          evaluated' = <<[fn |-> "formatPrice", arg |-> price, decimals |-> PricePad,
                          value |-> formatPrice(price)]>>
    /\ UNCHANGED <<emitted, order_book, kycRegistry, submitted, ticks, faults, cyc, http>>

SpecFormat == Init /\ [][FormatAmountCall \/ FormatPriceCall]_vars

(***************************************************************************)
(* The service running on: the scheduler keeps ticking, an invocation that *)
(* has returned leaves its slot to a later tick, the sell stream holds one *)
(* event, and the buy stream starts with a full page and grows by one      *)
(* event, which pushes the oldest event out of the fetched window.         *)
(* Failures are finitely many: all but one of them lie in the past.        *)
(***************************************************************************)
InitLive ==
    /\ emitted = [kind \in Kinds |-> IF kind = "BuyOrderCreated" THEN PageLimit ELSE 1]
    /\ order_book = EmptyBag
    /\ kycRegistry = [u \in Users |-> FALSE]
    /\ submitted = EmptyBag
    /\ ticks = 0
    /\ faults = MaxFaults - 1
    /\ cyc = [c \in Slots |-> IdleCycle]
    /\ http = <<>>
    /\ evaluated = <<>>

EmitBeyondPage ==
    /\ emitted["BuyOrderCreated"] < PageLimit + 1
    /\ \/ \A c \in Slots : ~Running(c)
       \/ \E c \in Slots : cyc[c].pc \in {"fetchBuy", "fetchSell"}
    /\ emitted' = [emitted EXCEPT !["BuyOrderCreated"] = @ + 1]
    /\ UNCHANGED <<evaluated, http, order_book, kycRegistry, submitted, ticks, faults, cyc>>

\* A tick of the running scheduler that finds no invocation in progress, in
\* the slot of an invocation that is over.
TickAgain(c) ==
    /\ cyc[c].pc \in {"idle", "done"}
    /\ \A d \in Slots : ~Running(d)
    /\ cyc' = [cyc EXCEPT ![c] =
                  [IdleCycle EXCEPT !.pc = "fetchBuy", !.hadRecord = KeysOf(order_book)]]
    /\ UNCHANGED <<evaluated, http, emitted, order_book, kycRegistry, submitted, ticks, faults>>

NextLive ==
    \/ EmitBeyondPage
    \/ \E c \in Slots : TickAgain(c)
    \/ \E c \in Slots : CycleStep(c)

\* The scheduler fires for ever and every awaited call returns.
SpecLive ==
    /\ InitLive
    /\ [][NextLive]_vars
    /\ WF_vars(\E c \in Slots : TickAgain(c))
    /\ \A c \in Slots : WF_vars(CycleStep(c))

(***************************************************************************)
(* An answer of the events endpoint that lists one event twice. rawEvents  *)
(* is whatever response.json() delivers: fetchBuyOrderEvents maps it entry *)
(* by entry and removes nothing.                                           *)
(***************************************************************************)
FetchBuyRepeated(c) ==
    /\ cyc[c].pc = "fetchBuy"
    /\ LET got == fetchOrderEvents("BuyOrderCreated", emitted["BuyOrderCreated"],
                                   PageLimit, TRUE)
           r == cyc[c]
       IN  \E i \in 1..Len(got.events) :
              /\ Len(got.events) < PageLimit
              /\ cyc' = [cyc EXCEPT ![c] =
                    [r EXCEPT !.pc = "fetchSell",
                              !.buyOrderEvents = Append(got.events, got.events[i]),
                              !.trace = Append(@, [op |-> "fetchBuy", threw |-> FALSE])]]
    /\ UNCHANGED <<evaluated, http, emitted, order_book, kycRegistry, submitted, ticks, faults>>

SpecRepeated == Init /\ [][NextSeq \/ \E c \in Slots : FetchBuyRepeated(c)]_vars

\* The polling cycles and the endpoint in one process: a client's first
\* request arrives at any point of the cycles.
FirstKycVerify ==
    /\ http = <<>>
    /\ KycVerify

NextService ==
    \/ NextSeq
    \/ FirstKycVerify

SpecService == Init /\ [][NextService]_vars

(***************************************************************************)
(* Reading the history of a cycle.                                         *)
(***************************************************************************)
MutationOps == {"mint", "admin_burn_from"}

KeyedOps == {"orderExists", "insertOrder", "unsupported", "isUserVerified",
             "setUserVerification"} \cup MutationOps

\* Positions in cycle c's trace of the calls in ops made for the event key.
Calls(c, ops, key) ==
    {i \in 1..Len(cyc[c].trace) :
        /\ cyc[c].trace[i].op \in ops
        /\ cyc[c].trace[i].op \in KeyedOps
        /\ cyc[c].trace[i].key = key}

FailedCalls(c, ops, key) == {i \in Calls(c, ops, key) : cyc[c].trace[i].outcome # "ok"}

OkCalls(c, ops, key) == {i \in Calls(c, ops, key) : cyc[c].trace[i].outcome = "ok"}

Quiescent == \A c \in Slots : ~Running(c)

RECURSIVE SumCopies(_, _)
SumCopies(elems, bag) ==
    IF elems = {} THEN 0
    ELSE LET e == CHOOSE x \in elems : TRUE
         IN  CopiesIn(e, bag) + SumCopies(elems \ {e}, bag)

\* Number of ProcessedRecords the store holds for a key.
RecordCount(key) == SumCopies(RowsOf(order_book, key[1], key[2], key[3]), order_book)

\* Number of mint/burn transactions submitted for a key, over all cycles.
MutationCount(key) ==
    SumCopies({e \in BagToSet(submitted) : e.op \in MutationOps /\ e.key = key}, submitted)

\* The keys some cycle asked the store about.
CheckedKeys ==
    UNION {{cyc[c].trace[i].key :
               i \in {j \in 1..Len(cyc[c].trace) : cyc[c].trace[j].op = "orderExists"}} :
           c \in Slots}

NewKeys(c) ==
    {DedupKey(cyc[c].newBuyOrderEvents[i]) : i \in 1..Len(cyc[c].newBuyOrderEvents)} \cup
    {DedupKey(cyc[c].newSellOrderEvents[i]) : i \in 1..Len(cyc[c].newSellOrderEvents)}

\* The asset_amount string the ledger delivered for event n of a kind.
RawAmounts ==
    [kind \in Kinds |->
        [seq \in {NatStr(n) : n \in 0..(StreamLen(kind) - 1)} |->
            RawEvent(kind, CHOOSE n \in 0..(StreamLen(kind) - 1) : NatStr(n) = seq)
                .data.asset_amount]]

(***************************************************************************)
(* Properties.                                                             *)
(***************************************************************************)

\* C1 (as stated): for every event whose key already had a record when a
\* cycle started, that cycle inserts no further record for the key and
\* submits no mint/burn for it.
C1_Idempotence ==
    \A c \in Slots : \A key \in cyc[c].hadRecord :
        /\ OkCalls(c, {"insertOrder"}, key) = {}
        /\ Calls(c, MutationOps, key) = {}

\* C1 (amended): for every event whose key already had a record when a cycle
\* started and whose existence check in that cycle did not fail, the cycle
\* attempts no insert for the key and submits no mint/burn for it.
C1_IdempotenceWhenCheckSucceeds ==
    \A c \in Slots : \A key \in cyc[c].hadRecord :
        FailedCalls(c, {"orderExists"}, key) = {} =>
            /\ Calls(c, {"insertOrder"}, key) = {}
            /\ Calls(c, MutationOps, key) = {}

C1_Witness ==
    \E c \in Slots : \E key \in cyc[c].hadRecord :
        /\ cyc[c].pc = "done"
        /\ OkCalls(c, {"orderExists"}, key) # {}

C3_FailOpenDedup ==
    \A c \in Slots : \A i \in 1..Len(cyc[c].trace) :
        (cyc[c].trace[i].op = "orderExists" /\ cyc[c].trace[i].outcome # "ok") =>
            cyc[c].trace[i].key \in NewKeys(c)

C3_Witness ==
    \E c \in Slots : \E key \in cyc[c].hadRecord :
        /\ FailedCalls(c, {"orderExists"}, key) # {}
        /\ key \in NewKeys(c)

\* C4: a mint or burn transaction is submitted only if, earlier in the same
\* dispatch, the verification query answered true or a setVerified(identity,
\* true) request returned success.
C4_VerifyBeforeMutate ==
    \A c \in Slots : \A i \in 1..Len(cyc[c].trace) :
        cyc[c].trace[i].op \in MutationOps =>
            \E j \in 1..(i - 1) :
                /\ cyc[c].trace[j].op \in {"isUserVerified", "setUserVerification"}
                /\ cyc[c].trace[j].key = cyc[c].trace[i].key
                /\ \/ /\ cyc[c].trace[j].op = "isUserVerified"
                      /\ cyc[c].trace[j].value
                   \/ /\ cyc[c].trace[j].op = "setUserVerification"
                      /\ cyc[c].trace[j].user = cyc[c].trace[i].user
                      /\ cyc[c].trace[j].isVerified
                      /\ cyc[c].trace[j].outcome = "ok"

C4_Witness ==
    \E c \in Slots : \E i \in 1..Len(cyc[c].trace) :
        /\ cyc[c].trace[i].op \in MutationOps
        /\ OkCalls(c, {"setUserVerification"}, cyc[c].trace[i].key) # {}

\* The dispatches cycle c has finished: results[j] is the outcome recorded for
\* orderEvents[j].
Dispatched(c) == 1..Len(cyc[c].results)

DispatchedKeys(c) == {DedupKey(cyc[c].orderEvents[j]) : j \in Dispatched(c)}

\* C5: when the verification query for an identity throws, the answer is
\* false, the dispatch issues exactly one setVerified(identity, true) request,
\* and when that request fails no mint/burn follows and no second request is
\* made.
C5_FailClosedVerification ==
    \A c \in Slots : \A i \in 1..Len(cyc[c].trace) :
        (cyc[c].trace[i].op = "isUserVerified" /\ cyc[c].trace[i].outcome = "throw") =>
            LET key == cyc[c].trace[i].key
                requests == Calls(c, {"setUserVerification"}, key)
            IN  /\ ~cyc[c].trace[i].value
                /\ Cardinality(requests) <= 1
                /\ \A j \in requests :
                      /\ j = i + 1
                      /\ cyc[c].trace[j].user = key[1]
                      /\ cyc[c].trace[j].isVerified
                      /\ cyc[c].trace[j].outcome # "ok" =>
                            Calls(c, MutationOps, key) = {}
                /\ key \in DispatchedKeys(c) => Cardinality(requests) = 1

C5_Witness ==
    \E c \in Slots : \E i \in 1..Len(cyc[c].trace) :
        /\ cyc[c].trace[i].op = "isUserVerified"
        /\ cyc[c].trace[i].outcome = "throw"
        /\ cyc[c].trace[i].key \in DispatchedKeys(c)
        /\ FailedCalls(c, {"setUserVerification"}, cyc[c].trace[i].key) # {}

\* C6 (as stated): when the setVerified request of a dispatch returned
\* success=false, no mint/burn is submitted for the event and the recorded
\* outcome has success=false and an errorMessage that carries the request's
\* error message.
C6_AutoVerifyFailureReported ==
    \A c \in Slots : \A j \in Dispatched(c) :
        LET key == DedupKey(cyc[c].orderEvents[j])
        IN  FailedCalls(c, {"setUserVerification"}, key) # {} =>
                /\ Calls(c, MutationOps, key) = {}
                /\ ~cyc[c].results[j].success
                /\ cyc[c].results[j].errorMessage[4] = ErrorText

\* C7 (as stated): a finished cycle whose new events are one BUY event, whose
\* identity the query reported unverified and whose setVerified request did
\* not fail, issued exactly one setVerified(identity, true) request, then
\* submitted exactly one mint, and added exactly one record to the store.
C7_ScenarioA ==
    \A c \in Slots :
        (/\ cyc[c].pc = "done"
         /\ Len(cyc[c].orderEvents) = 1
         /\ cyc[c].orderEvents[1].eventType = "BuyOrderCreated"
         /\ \E i \in Calls(c, {"isUserVerified"}, DedupKey(cyc[c].orderEvents[1])) :
                ~cyc[c].trace[i].value
         /\ FailedCalls(c, {"setUserVerification"}, DedupKey(cyc[c].orderEvents[1])) = {})
        => LET key == DedupKey(cyc[c].orderEvents[1])
               requests == Calls(c, {"setUserVerification"}, key)
               mints == Calls(c, {"mint"}, key)
           IN  /\ Cardinality(requests) = 1
               /\ Cardinality(mints) = 1
               /\ \A i \in requests : \A j \in mints :
                     i < j /\ cyc[c].trace[i].user = key[1] /\ cyc[c].trace[i].isVerified
               /\ Cardinality(OkCalls(c, {"insertOrder"}, key)) = 1

\* C7 (amended): the same, for a cycle in which the insert of the event
\* succeeded.
C7_ScenarioAWhenInsertSucceeds ==
    \A c \in Slots :
        (/\ cyc[c].pc = "done"
         /\ Len(cyc[c].orderEvents) = 1
         /\ cyc[c].orderEvents[1].eventType = "BuyOrderCreated"
         /\ MapTicker(cyc[c].orderEvents[1].ticker) # NoTokenClass
         /\ \E i \in Calls(c, {"isUserVerified"}, DedupKey(cyc[c].orderEvents[1])) :
                ~cyc[c].trace[i].value
         /\ FailedCalls(c, {"setUserVerification", "insertOrder"},
                        DedupKey(cyc[c].orderEvents[1])) = {})
        => LET key == DedupKey(cyc[c].orderEvents[1])
               requests == Calls(c, {"setUserVerification"}, key)
               mints == Calls(c, {"mint"}, key)
           IN  /\ Cardinality(requests) = 1
               /\ Cardinality(mints) = 1
               /\ \A i \in requests : \A j \in mints :
                     i < j /\ cyc[c].trace[i].user = key[1] /\ cyc[c].trace[i].isVerified
               /\ Cardinality(OkCalls(c, {"insertOrder"}, key)) = 1

C7_Witness ==
    \E c \in Slots :
        /\ cyc[c].pc = "done"
        /\ Len(cyc[c].orderEvents) = 1
        /\ cyc[c].orderEvents[1].eventType = "BuyOrderCreated"
        /\ OkCalls(c, {"insertOrder"}, DedupKey(cyc[c].orderEvents[1])) # {}
        /\ OkCalls(c, {"setUserVerification"}, DedupKey(cyc[c].orderEvents[1])) # {}
        /\ Calls(c, {"mint"}, DedupKey(cyc[c].orderEvents[1])) # {}

\* C8: an event whose normalised ticker maps to no TokenClass never has a
\* mint or burn submitted for it, and its finished dispatch is recorded as an
\* unsupported-ticker outcome.
C8_TickerGating ==
    \A c \in Slots : \A j \in 1..Len(cyc[c].orderEvents) :
        LET event == cyc[c].orderEvents[j]
        IN  toUpperCase(event.ticker) \notin SupportedTickers =>
                /\ MutationCount(DedupKey(event)) = 0
                /\ Calls(c, MutationOps, DedupKey(event)) = {}
                /\ j \in Dispatched(c) =>
                      /\ cyc[c].results[j] = UnsupportedResult(event.ticker)
                      /\ Calls(c, {"unsupported"}, DedupKey(event)) # {}

C8_Witness ==
    \E c \in Slots : \E j \in Dispatched(c) :
        /\ toUpperCase(cyc[c].orderEvents[j].ticker) \notin SupportedTickers
        /\ cyc[c].results[j] = UnsupportedResult(cyc[c].orderEvents[j].ticker)

C10_UnscaledPersistence ==
    \A row \in BagToSet(order_book) :
        row.asset_amount = RawAmounts[row.event_type][row.sequence_number]

\* C11: within one cycle an insert is attempted for every new event, buy and
\* sell, whatever the outcome of the inserts before it, and once the inserts
\* are over successCount + failureCount is the number of new events.
C11_SiblingIndependence ==
    \A c \in Slots :
        /\ cyc[c].successCount =
              Cardinality({i \in 1..Len(cyc[c].trace) :
                              /\ cyc[c].trace[i].op = "insertOrder"
                              /\ cyc[c].trace[i].outcome = "ok"})
        /\ cyc[c].pc = "insert" =>
              cyc[c].successCount + cyc[c].failureCount = cyc[c].idx - 1
        /\ cyc[c].pc # "insert" =>
              /\ cyc[c].successCount + cyc[c].failureCount = Len(cyc[c].orderEvents)
              /\ \A j \in 1..Len(cyc[c].orderEvents) :
                    Cardinality(Calls(c, {"insertOrder"},
                                      DedupKey(cyc[c].orderEvents[j]))) = 1

C11_Witness ==
    \E c \in Slots :
        /\ cyc[c].pc = "done"
        /\ Len(cyc[c].orderEvents) >= 3
        /\ cyc[c].orderEvents[1].eventType = "BuyOrderCreated"
        /\ cyc[c].orderEvents[Len(cyc[c].orderEvents)].eventType = "SellOrderCreated"
        /\ FailedCalls(c, {"insertOrder"}, DedupKey(cyc[c].orderEvents[1])) # {}
        /\ OkCalls(c, {"insertOrder"}, DedupKey(cyc[c].orderEvents[3])) # {}
        /\ cyc[c].failureCount >= 1
        /\ cyc[c].successCount >= 1

\* The inserts of cycle d are over.
InsertsOver(d) ==
    cyc[d].pc \in {"dispatch", "isUserVerified", "setUserVerification", "submit", "done"}

\* No cycle strictly between c and d stored a record for the key.
NotStoredBetween(c, d, key) ==
    \A e \in Slots : (c < e /\ e < d) => OkCalls(e, {"insertOrder"}, key) = {}

\* C12 (as stated): an event whose insert failed in a cycle has no record in
\* the store until a later cycle stores it, and the next cycle that checks it
\* classifies it as new and attempts its insert again.
C12_RetryAfterInsertFailure ==
    \A c \in Slots : \A j \in 1..Len(cyc[c].orderEvents) :
        LET key == DedupKey(cyc[c].orderEvents[j])
        IN  (FailedCalls(c, {"insertOrder"}, key) # {}) =>
                /\ (\A d \in Slots : c < d => OkCalls(d, {"insertOrder"}, key) = {}) =>
                      RecordCount(key) = 0
                /\ \A d \in Slots :
                      (c < d /\ NotStoredBetween(c, d, key)
                             /\ Calls(d, {"orderExists"}, key) # {}) =>
                          /\ key \in NewKeys(d)
                          /\ InsertsOver(d) => Calls(d, {"insertOrder"}, key) # {}

\* C12 (amended): the same for an event that had no record when the cycle of
\* the failed insert started.
C12_RetryOfUnrecordedEvent ==
    \A c \in Slots : \A j \in 1..Len(cyc[c].orderEvents) :
        LET key == DedupKey(cyc[c].orderEvents[j])
        IN  (FailedCalls(c, {"insertOrder"}, key) # {} /\ key \notin cyc[c].hadRecord) =>
                /\ (\A d \in Slots : c < d => OkCalls(d, {"insertOrder"}, key) = {}) =>
                      RecordCount(key) = 0
                /\ \A d \in Slots :
                      (c < d /\ NotStoredBetween(c, d, key)
                             /\ Calls(d, {"orderExists"}, key) # {}) =>
                          /\ key \in NewKeys(d)
                          /\ InsertsOver(d) => Calls(d, {"insertOrder"}, key) # {}

C12_Witness ==
    \E c \in Slots : \E j \in 1..Len(cyc[c].orderEvents) :
        LET key == DedupKey(cyc[c].orderEvents[j])
        IN  /\ FailedCalls(c, {"insertOrder"}, key) # {}
            /\ key \notin cyc[c].hadRecord
            /\ c + 1 \in Slots
            /\ OkCalls(c + 1, {"orderExists"}, key) # {}
            /\ OkCalls(c + 1, {"insertOrder"}, key) # {}
            /\ RecordCount(key) = 1

\* C13: a cycle in which the buy fetch or the sell fetch threw made no
\* existence check, no insert and no mint/burn or verification request, also
\* for the kind whose fetch succeeded; the invocation completed, and the cycle
\* of the next tick starts with a fresh buy fetch.
C13_FetchFailureAbortsCycle ==
    \A c \in Slots :
        (\E i \in 1..Len(cyc[c].trace) :
              cyc[c].trace[i].op \in {"fetchBuy", "fetchSell"} /\ cyc[c].trace[i].threw) =>
            /\ cyc[c].pc = "done"
            /\ \A i \in 1..Len(cyc[c].trace) : cyc[c].trace[i].op \in {"fetchBuy", "fetchSell"}
            /\ cyc[c].trace[Len(cyc[c].trace)].threw
            /\ cyc[c].newBuyOrderEvents = <<>> /\ cyc[c].newSellOrderEvents = <<>>
            /\ cyc[c].successCount = 0 /\ cyc[c].failureCount = 0
            /\ cyc[c].results = <<>>
            /\ (c + 1 \in Slots /\ cyc[c + 1].trace # <<>>) =>
                  cyc[c + 1].trace[1].op = "fetchBuy"

C13_Witness ==
    \E c \in Slots :
        /\ c + 1 \in Slots
        /\ Len(cyc[c].trace) = 2
        /\ cyc[c].trace[2] = [op |-> "fetchSell", threw |-> TRUE]
        /\ cyc[c].buyOrderEvents # <<>>
        /\ cyc[c].pc = "done"
        /\ cyc[c + 1].pc = "done"
        /\ OkCalls(c + 1, {"insertOrder"}, DedupKey(cyc[c].buyOrderEvents[1])) # {}

\* C14: in every reachable state at most one invocation of pollForEvents is in
\* progress, also when an external call of a cycle outlasts the polling
\* interval.
C14_AtMostOneCycle ==
    Cardinality({c \in Slots : Running(c)}) <= 1

\* Cycles c and d were in progress at the same time.
Overlapped(c, d) ==
    c \in cyc[d].startedDuring \/ d \in cyc[c].startedDuring

\* C15: two records for one DedupKey, with every existence check for it
\* answered by the store, come from two cycles that overlapped and both
\* inserted the event; without overlap and without failed existence checks the
\* store holds at most one record per key.
C15_OverlapRace ==
    \A kind \in Kinds : \A n \in 0..(emitted[kind] - 1) :
        LET key == DedupKey(FormattedEvents[kind][n])
        IN  (RecordCount(key) >= 2
                /\ \A c \in Slots : FailedCalls(c, {"orderExists"}, key) = {}) =>
                \E c, d \in Slots :
                    /\ c < d
                    /\ Overlapped(c, d)
                    /\ OkCalls(c, {"insertOrder"}, key) # {}
                    /\ OkCalls(d, {"insertOrder"}, key) # {}

C15_Witness ==
    \E kind \in Kinds : \E n \in 0..(emitted[kind] - 1) :
        LET key == DedupKey(FormattedEvents[kind][n])
        IN  /\ RecordCount(key) = 2
            /\ faults = 0
            /\ \E c, d \in Slots :
                  /\ c < d
                  /\ Overlapped(c, d)
                  /\ key \in NewKeys(c) /\ key \in NewKeys(d)
                  /\ OkCalls(c, {"orderExists"}, key) # {}
                  /\ OkCalls(d, {"orderExists"}, key) # {}
                  /\ OkCalls(c, {"insertOrder"}, key) # {}
                  /\ OkCalls(d, {"insertOrder"}, key) # {}

\* The calls a dispatch of an event makes.
DispatchOps == {"unsupported", "isUserVerified", "setUserVerification"} \cup MutationOps

\* Cycle c ended having stored the event's record and submitted no mint/burn
\* for it: its auto-verification failed, or the process stopped before its
\* dispatch.
Stranded(c, key) ==
    /\ cyc[c].pc \in {"done", "stopped"}
    /\ OkCalls(c, {"insertOrder"}, key) # {}
    /\ Calls(c, MutationOps, key) = {}
    /\ \/ FailedCalls(c, {"setUserVerification"}, key) # {}
       \/ cyc[c].pc = "stopped" /\ Calls(c, DispatchOps, key) = {}

\* C16 (as stated): an event stranded by a cycle is not dispatched in any later
\* cycle.
C16_StrandedNeverDispatched ==
    \A c, d \in Slots : \A j \in 1..Len(cyc[c].orderEvents) :
        LET key == DedupKey(cyc[c].orderEvents[j])
        IN  (c < d /\ Stranded(c, key)) =>
                /\ key \notin NewKeys(d)
                /\ Calls(d, DispatchOps, key) = {}

\* C16 (amended): an event stranded by a cycle is not dispatched in a later
\* cycle whose existence check for it did not fail.
C16_StrandedWhenCheckSucceeds ==
    \A c, d \in Slots : \A j \in 1..Len(cyc[c].orderEvents) :
        LET key == DedupKey(cyc[c].orderEvents[j])
        IN  (c < d /\ Stranded(c, key) /\ FailedCalls(d, {"orderExists"}, key) = {}) =>
                /\ key \notin NewKeys(d)
                /\ Calls(d, DispatchOps, key) = {}

C16_Witness ==
    \E c \in Slots :
        /\ c + 1 \in Slots
        /\ cyc[c].pc = "stopped"
        /\ cyc[c + 1].pc = "done"
        /\ Len(cyc[c].orderEvents) >= 2
        /\ FailedCalls(c, {"setUserVerification"}, DedupKey(cyc[c].orderEvents[1])) # {}
        /\ Calls(c, DispatchOps, DedupKey(cyc[c].orderEvents[2])) = {}
        /\ \A j \in 1..2 :
              /\ Stranded(c, DedupKey(cyc[c].orderEvents[j]))
              /\ OkCalls(c + 1, {"orderExists"}, DedupKey(cyc[c].orderEvents[j])) # {}
              /\ MutationCount(DedupKey(cyc[c].orderEvents[j])) = 0

\* C17: every submitted mutation is a mint exactly when its event is a BUY and
\* a burn exactly when its event is a SELL, and it carries the event's
\* identity, the TokenClass its ticker maps to, and the event's assetAmount.
C17_OperationSelection ==
    \A c \in Slots : \A i \in 1..Len(cyc[c].trace) :
        cyc[c].trace[i].op \in MutationOps =>
            \E j \in 1..Len(cyc[c].orderEvents) :
                LET event == cyc[c].orderEvents[j]
                    call == cyc[c].trace[i]
                IN  /\ DedupKey(event) = call.key
                    /\ (call.op = "mint") <=> (event.eventType = "BuyOrderCreated")
                    /\ (call.op = "admin_burn_from") <=> (event.eventType = "SellOrderCreated")
                    /\ call.user = event.user
                    /\ call.tokenType = MapTicker(event.ticker)
                    /\ call.tokenType # NoTokenClass
                    /\ call.amount = event.assetAmount

C17_Witness ==
    \E c \in Slots : \E i, k \in 1..Len(cyc[c].trace) : \E j, l \in 1..Len(cyc[c].orderEvents) :
        /\ cyc[c].trace[i].op = "mint" /\ cyc[c].trace[i].outcome = "ok"
        /\ cyc[c].trace[k].op = "admin_burn_from" /\ cyc[c].trace[k].outcome = "ok"
        /\ DedupKey(cyc[c].orderEvents[j]) = cyc[c].trace[i].key
        /\ DedupKey(cyc[c].orderEvents[l]) = cyc[c].trace[k].key
        /\ cyc[c].trace[i].amount \notin {cyc[c].orderEvents[j].usdcAmount,
                                          cyc[c].orderEvents[j].price}
        /\ cyc[c].trace[k].amount \notin {cyc[c].orderEvents[l].usdcAmount,
                                          cyc[c].orderEvents[l].price}

KeptOf(c, page) ==
    LET checked(e) == Calls(c, {"orderExists"}, DedupKey(e))
        Kept(e) == \E i \in checked(e) :
                       cyc[c].trace[i].outcome # "ok" \/ ~cyc[c].trace[i].value
        n == Cardinality({j \in 1..Len(page) : checked(page[j]) # {}})
    IN  SelectSeq(SubSeq(page, 1, n), Kept)

\* C19: the output of the filter is the subsequence of its input made of
\* exactly the events whose existence check failed or found no record, in the
\* input's order, each once; after the filter every fetched event was checked.
C19_FilterIsSubsequence ==
    \A c \in Slots :
        /\ cyc[c].newBuyOrderEvents = KeptOf(c, cyc[c].buyOrderEvents)
        /\ cyc[c].newSellOrderEvents = KeptOf(c, cyc[c].sellOrderEvents)
        /\ InsertsOver(c) /\ cyc[c].orderEvents # <<>> =>
              /\ \A j \in 1..Len(cyc[c].buyOrderEvents) :
                    Cardinality(Calls(c, {"orderExists"},
                                      DedupKey(cyc[c].buyOrderEvents[j]))) = 1
              /\ \A j \in 1..Len(cyc[c].sellOrderEvents) :
                    Cardinality(Calls(c, {"orderExists"},
                                      DedupKey(cyc[c].sellOrderEvents[j]))) = 1

C19_Witness ==
    \E c \in Slots :
        /\ cyc[c].pc = "done"
        /\ Len(cyc[c].buyOrderEvents) = 3
        /\ Len(cyc[c].newBuyOrderEvents) = 2
        /\ cyc[c].newBuyOrderEvents[1] = cyc[c].buyOrderEvents[1]
        /\ cyc[c].newBuyOrderEvents[2] = cyc[c].buyOrderEvents[3]
        /\ FailedCalls(c, {"orderExists"}, DedupKey(cyc[c].buyOrderEvents[1])) # {}
        /\ \E i \in OkCalls(c, {"orderExists"}, DedupKey(cyc[c].buyOrderEvents[2])) :
              cyc[c].trace[i].value
        /\ \E i \in OkCalls(c, {"orderExists"}, DedupKey(cyc[c].buyOrderEvents[3])) :
              ~cyc[c].trace[i].value

\* The calls of cycle c's dispatch follow the order of its new events: a call
\* for a later event never precedes a call for an earlier one.
InFetchOrder(c) ==
    \A i, k \in 1..Len(cyc[c].trace) :
        (i < k /\ cyc[c].trace[i].op \in DispatchOps /\ cyc[c].trace[k].op \in DispatchOps) =>
            \E j, l \in 1..Len(cyc[c].orderEvents) :
                /\ j <= l
                /\ DedupKey(cyc[c].orderEvents[j]) = cyc[c].trace[i].key
                /\ DedupKey(cyc[c].orderEvents[l]) = cyc[c].trace[k].key

\* C20 (as stated): the events of a cycle are dispatched one at a time in
\* fetch order, and after a successful auto-verification for an event every
\* verification query for a later event of the same identity in the batch
\* returns true and no further setVerified request is issued for it.
C20_SequentialDispatch ==
    \A c \in Slots :
        /\ InFetchOrder(c)
        /\ \A j, l \in 1..Len(cyc[c].orderEvents) :
            LET first == DedupKey(cyc[c].orderEvents[j])
                second == DedupKey(cyc[c].orderEvents[l])
            IN  (/\ j < l
                 /\ cyc[c].orderEvents[j].user = cyc[c].orderEvents[l].user
                 /\ OkCalls(c, {"setUserVerification"}, first) # {}) =>
                    /\ \A i \in Calls(c, {"isUserVerified"}, second) : cyc[c].trace[i].value
                    /\ Calls(c, {"setUserVerification"}, second) = {}

\* C20 (amended): the same, for the later events whose verification query did
\* not fail.
C20_SequentialDispatchWhenQueryAnswers ==
    \A c \in Slots :
        /\ InFetchOrder(c)
        /\ \A j, l \in 1..Len(cyc[c].orderEvents) :
            LET first == DedupKey(cyc[c].orderEvents[j])
                second == DedupKey(cyc[c].orderEvents[l])
            IN  (/\ j < l
                 /\ cyc[c].orderEvents[j].user = cyc[c].orderEvents[l].user
                 /\ OkCalls(c, {"setUserVerification"}, first) # {}
                 /\ FailedCalls(c, {"isUserVerified"}, second) = {}) =>
                    /\ \A i \in Calls(c, {"isUserVerified"}, second) : cyc[c].trace[i].value
                    /\ Calls(c, {"setUserVerification"}, second) = {}

C20_Witness ==
    \E c \in Slots :
        /\ Len(cyc[c].orderEvents) >= 2
        /\ cyc[c].orderEvents[1].user = cyc[c].orderEvents[2].user
        /\ OkCalls(c, {"setUserVerification"}, DedupKey(cyc[c].orderEvents[1])) # {}
        /\ \E i \in OkCalls(c, {"isUserVerified"}, DedupKey(cyc[c].orderEvents[2])) :
              cyc[c].trace[i].value
        /\ OkCalls(c, {"mint"}, DedupKey(cyc[c].orderEvents[2])) # {}
        /\ Cardinality({i \in 1..Len(cyc[c].trace) :
                           cyc[c].trace[i].op = "setUserVerification"}) = 1

\* C21 (as stated): every insert attempt for a key comes after an existence
\* check for that key, in the same cycle, that the store answered and that
\* reported no record.
C21_InsertAfterSuccessfulCheck ==
    \A c \in Slots : \A i \in 1..Len(cyc[c].trace) :
        cyc[c].trace[i].op = "insertOrder" =>
            \E k \in OkCalls(c, {"orderExists"}, cyc[c].trace[i].key) :
                k < i /\ ~cyc[c].trace[k].value

\* C21 (amended): every insert attempt for a key comes after an existence
\* check for that key, in the same cycle, that reported no record or failed.
C21_InsertAfterCheck ==
    \A c \in Slots : \A i \in 1..Len(cyc[c].trace) :
        cyc[c].trace[i].op = "insertOrder" =>
            \E k \in Calls(c, {"orderExists"}, cyc[c].trace[i].key) :
                /\ k < i
                /\ cyc[c].trace[k].outcome # "ok" \/ ~cyc[c].trace[k].value

C21_Witness ==
    \E c \in Slots : \E i \in 1..Len(cyc[c].trace) :
        /\ cyc[c].trace[i].op = "insertOrder"
        /\ cyc[c].trace[i].outcome = "ok"
        /\ \E k \in OkCalls(c, {"orderExists"}, cyc[c].trace[i].key) :
              k < i /\ ~cyc[c].trace[k].value
        /\ RecordCount(cyc[c].trace[i].key) = 1

\* C22: no step removes or changes a row of order_book: every row keeps at
\* least its copies, so the set of recorded keys only grows.
C22_AppendOnly ==
    [][/\ \A row \in BagToSet(order_book) :
              CopiesIn(row, order_book') >= CopiesIn(row, order_book)
       /\ KeysOf(order_book) \subseteq KeysOf(order_book')]_vars

C22_Witness ==
    \E c \in Slots : \E key \in cyc[c].hadRecord :
        /\ cyc[c].pc = "done"
        /\ \E i \in 1..Len(cyc[c].trace) :
              /\ cyc[c].trace[i].op = "insertOrder"
              /\ cyc[c].trace[i].outcome = "ok"
              /\ cyc[c].trace[i].key # key
        /\ RecordCount(key) >= 1
        /\ Cardinality(KeysOf(order_book)) >= 2

\* C23: every set_verified transaction this system submitted, from a dispatch
\* or from the endpoint, carries the value true, and no step takes an
\* identity's verification from true to false.
C23_VerificationOnlyRaised ==
    /\ [](\A e \in BagToSet(submitted) : e.op = "setUserVerification" => e.isVerified = TRUE)
    /\ [][\A u \in Users : kycRegistry[u] => kycRegistry'[u]]_vars

C23_Witness ==
    /\ Len(http) = 1
    /\ http[1].body.userAddress = Bob
    /\ http[1].response.success
    /\ kycRegistry[Alice] /\ kycRegistry[Bob]
    /\ \E e \in BagToSet(submitted) :
          e.op = "setUserVerification" /\ e.key # <<>> /\ e.user = Alice /\ e.outcome = "ok"
    /\ \E e \in BagToSet(submitted) : e.op = "mint" /\ e.user = Alice

\* C24: a dispatch whose verification query returned true issues no
\* set_verified request; its next call is the mint or burn of the event.
C24_VerifiedGoesToSubmit ==
    \A c \in Slots : \A i \in 1..Len(cyc[c].trace) :
        (cyc[c].trace[i].op = "isUserVerified" /\ cyc[c].trace[i].value) =>
            /\ Calls(c, {"setUserVerification"}, cyc[c].trace[i].key) = {}
            /\ i = Len(cyc[c].trace) => cyc[c].pc \in {"submit", "stopped"}
            /\ i < Len(cyc[c].trace) =>
                  /\ cyc[c].trace[i + 1].op \in MutationOps
                  /\ cyc[c].trace[i + 1].key = cyc[c].trace[i].key

C24_Witness ==
    \E c \in Slots : \E i \in 1..Len(cyc[c].trace) :
        /\ cyc[c].trace[i].op = "isUserVerified"
        /\ cyc[c].trace[i].value
        /\ cyc[c].trace[i].key[1] = Alice
        /\ i < Len(cyc[c].trace)
        /\ cyc[c].trace[i + 1].op = "mint"
        /\ Len(http) = 1 /\ http[1].body.userAddress = Alice
        /\ \A e \in BagToSet(submitted) : e.op = "setUserVerification" => e.key = <<>>

\* C25: within one cycle at most one mint/burn transaction is submitted for an
\* event, and a mint/burn that failed ends the dispatch of its event: its
\* outcome is the event's result and the next call, if any, is for another
\* event.
C25_MutationOutcomeTerminal ==
    \A c \in Slots : \A i \in 1..Len(cyc[c].trace) :
        cyc[c].trace[i].op \in MutationOps =>
            /\ Calls(c, MutationOps, cyc[c].trace[i].key) = {i}
            /\ \E j \in Dispatched(c) :
                  /\ DedupKey(cyc[c].orderEvents[j]) = cyc[c].trace[i].key
                  /\ cyc[c].results[j] = TransactionResult(cyc[c].trace[i].outcome)
            /\ i < Len(cyc[c].trace) => cyc[c].trace[i + 1].key # cyc[c].trace[i].key

C25_Witness ==
    \E c \in Slots : \E i, k \in 1..Len(cyc[c].trace) :
        /\ cyc[c].pc = "done"
        /\ i # k
        /\ cyc[c].trace[i].op = "mint" /\ cyc[c].trace[i].outcome = "failed"
        /\ cyc[c].trace[k].op = "mint" /\ cyc[c].trace[k].outcome = "throw"
        /\ Cardinality(Calls(c, MutationOps, cyc[c].trace[i].key)) = 1
        /\ Cardinality(Calls(c, MutationOps, cyc[c].trace[k].key)) = 1

\* Every call of mintTokens / adminBurnTokens that cycle c made has returned a
\* result, and a cycle that completed its fetches dispatched every new event.
NoDispatchAborts(c) ==
    /\ cyc[c].pc \in {"dispatch", "isUserVerified", "setUserVerification", "submit"} =>
          Len(cyc[c].results) = cyc[c].idx - 1
    /\ \A i \in 1..Len(cyc[c].trace) :
          cyc[c].trace[i].op \in DispatchOps =>
              \E j \in 1..Len(cyc[c].orderEvents) :
                  /\ DedupKey(cyc[c].orderEvents[j]) = cyc[c].trace[i].key
                  /\ j <= Len(cyc[c].results) + 1
    /\ (cyc[c].pc = "done" /\ cyc[c].orderEvents # <<>>) =>
          Len(cyc[c].results) = Len(cyc[c].orderEvents)

\* C26 (as stated): no dispatch aborts the cycle, and the result of every
\* dispatch in which the verification query, the auto-verification or the
\* mint/burn transaction failed has success=false and an empty hash (and an
\* error message where the transaction or the auto-verification failed).
C26_FailuresAreValues ==
    \A c \in Slots :
        /\ NoDispatchAborts(c)
        /\ \A j \in Dispatched(c) :
            LET key == DedupKey(cyc[c].orderEvents[j])
                result == cyc[c].results[j]
            IN  /\ FailedCalls(c, {"isUserVerified"}, key) # {} =>
                      ~result.success /\ result.hash = ""
                /\ FailedCalls(c, {"setUserVerification"}, key) # {} =>
                      /\ ~result.success /\ result.hash = ""
                      /\ result.errorMessage[1] = "Failed to auto-verify user"
                /\ FailedCalls(c, MutationOps, key) # {} =>
                      /\ ~result.success /\ result.hash = ""
                      /\ result.errorMessage = ErrorText

\* C26 (amended): no dispatch aborts the cycle; a failed auto-verification and
\* a transaction block that threw are returned with success=false, an empty
\* hash and an error message; a transaction that executed without success is
\* returned with success=false under its hash and without a message; a failed
\* verification query alone decides nothing about the result.
C26_FailuresAreValuesByCase ==
    \A c \in Slots :
        /\ NoDispatchAborts(c)
        /\ \A j \in Dispatched(c) :
            LET key == DedupKey(cyc[c].orderEvents[j])
                result == cyc[c].results[j]
            IN  /\ FailedCalls(c, {"setUserVerification"}, key) # {} =>
                      /\ ~result.success /\ result.hash = ""
                      /\ result.errorMessage[1] = "Failed to auto-verify user"
                /\ \A i \in FailedCalls(c, MutationOps, key) :
                      IF cyc[c].trace[i].outcome = "throw"
                      THEN /\ ~result.success /\ result.hash = ""
                           /\ result.errorMessage = ErrorText
                      ELSE /\ ~result.success /\ result.hash = TxHash
                           /\ result.errorMessage = Undefined

C26_Witness ==
    \E c \in Slots :
        /\ cyc[c].pc = "done"
        /\ Len(cyc[c].results) >= 3
        /\ FailedCalls(c, {"setUserVerification"}, DedupKey(cyc[c].orderEvents[1])) # {}
        /\ \E i \in FailedCalls(c, {"mint"}, DedupKey(cyc[c].orderEvents[2])) :
              cyc[c].trace[i].outcome = "throw"
        /\ cyc[c].results[2].errorMessage = ErrorText
        /\ cyc[c].results[3].success

\* The phase of a cycle a call belongs to.
PhaseOf(call) ==
    IF call.op = "fetchBuy" THEN 1
    ELSE IF call.op = "fetchSell" THEN 2
    ELSE IF call.op = "orderExists"
         THEN (IF call.key[2] = "BuyOrderCreated" THEN 3 ELSE 4)
    ELSE IF call.op = "insertOrder"
         THEN (IF call.key[2] = "BuyOrderCreated" THEN 5 ELSE 6)
    ELSE 7

\* C27: in the calls of a cycle both fetches come before the first existence
\* check, every existence check before the first insert, the inserts of buy
\* events before the inserts of sell events, and every insert before the
\* first call of a dispatch.
C27_PhaseOrdering ==
    \A c \in Slots : \A i, k \in 1..Len(cyc[c].trace) :
        i < k => PhaseOf(cyc[c].trace[i]) <= PhaseOf(cyc[c].trace[k])

C27_Witness ==
    \E c \in Slots :
        /\ cyc[c].pc = "done"
        /\ {PhaseOf(cyc[c].trace[i]) : i \in 1..Len(cyc[c].trace)} = 1..7
        /\ \E i \in 1..Len(cyc[c].trace) : cyc[c].trace[i].op = "mint"

SameIgnoringCase(a, b) ==
    a = b \/ \E i \in 1..26 : {a, b} = {LowerLetters[i], UpperLetters[i]}

\* C29: a ticker maps to the TokenClass T exactly when it has T's length and
\* T's letters in either case, and to nothing when no supported symbol is
\* matched that way; a proper prefix, suffix or extension of a symbol that is
\* not itself a symbol maps to nothing.
C29_TickerMappingExact ==
    \A i \in 1..Len(evaluated) :
        evaluated[i].fn = "MapTicker" =>
            LET ticker == evaluated[i].arg
                Matches(T) == /\ Len(ticker) = Len(T)
                              /\ \A k \in 1..Len(T) : SameIgnoringCase(ticker[k], T[k])
            IN  /\ \A T \in SupportedTickers : (evaluated[i].value = T) <=> Matches(T)
                /\ (evaluated[i].value = NoTokenClass) <=>
                       (\A T \in SupportedTickers : ~Matches(T))

C29_Witness ==
    /\ Len(evaluated) = 1
    /\ evaluated[1].arg = <<"u", "S", "d", "c">>
    /\ evaluated[1].value = Chars("USDC")

\* C30: whatever call a cycle is waiting for, the next scheduler tick can
\* start a new cycle, and every other cycle in progress can take its next
\* step.
C30_StallIsLocal ==
    \A c \in Slots :
        Running(c) =>
            /\ ticks < MaxTicks => ENABLED Tick(ticks + 1)
            /\ \A d \in Slots \ {c} : Running(d) => ENABLED CycleStep(d)

C30_Witness ==
    \E c, d \in Slots :
        /\ c < d
        /\ cyc[c].pc = "filterBuy"
        /\ Len(cyc[c].trace) = 2
        /\ c \in cyc[d].startedDuring
        /\ cyc[d].pc = "done"
        /\ Len(cyc[d].buyOrderEvents) = 1
        /\ OkCalls(d, {"orderExists"}, DedupKey(cyc[d].buyOrderEvents[1])) # {}
        /\ OkCalls(d, {"insertOrder"}, DedupKey(cyc[d].buyOrderEvents[1])) # {}

\* C31: a ticker whose bytes are all hexadecimal is normalised to the
\* characters of its bytes up to the last non-zero byte, a zero byte between
\* non-zero bytes included; a ticker with a byte that cannot be decoded is
\* returned as it was delivered.
C31_TickerNormalization ==
    \A i \in 1..Len(evaluated) :
        evaluated[i].fn = "formatTicker" =>
            LET hex == SubSeq(evaluated[i].arg, 3, Len(evaluated[i].arg))
                n == Len(hex) \div 2
                decodable == \A k \in 1..Len(hex) : IsHexChar(hex[k])
                last == IF \E k \in 1..n : parseInt16(SubSeq(hex, 2 * k - 1, 2 * k)) # 0
                        THEN CHOOSE k \in 1..n :
                                /\ parseInt16(SubSeq(hex, 2 * k - 1, 2 * k)) # 0
                                /\ \A m \in (k + 1)..n :
                                      parseInt16(SubSeq(hex, 2 * m - 1, 2 * m)) = 0
                        ELSE 0
            IN  IF ~decodable
                THEN evaluated[i].value = evaluated[i].arg
                ELSE last > 0 =>
                        evaluated[i].value =
                            [k \in 1..last |->
                                fromCharCode(parseInt16(SubSeq(hex, 2 * k - 1, 2 * k)))]

\* C32: an invocation of pollForEvents inserts at most one row per
\* (user, event type, sequence number), also when the page it fetched lists
\* an event more than once.
C32_OneInsertPerKeyPerCycle ==
    \A c \in Slots :
        \A i, j \in 1..Len(cyc[c].trace) :
            /\ cyc[c].trace[i].op = "insertOrder"
            /\ cyc[c].trace[j].op = "insertOrder"
            /\ cyc[c].trace[i].outcome = "ok"
            /\ cyc[c].trace[j].outcome = "ok"
            /\ cyc[c].trace[i].key = cyc[c].trace[j].key
            => i = j

\* C35: for a non-negative integer amount a and d in {6, 18}, formatAmount
\* prints a div 10^d, followed, unless a mod 10^d is zero, by a point and
\* the d digits of a mod 10^d without their trailing zeros; formatPrice
\* prints p div 10^18, a point, and the first 6 of the 18 digits of
\* p mod 10^18. whole and fraction are the digits of a shifted right by d
\* places.
C35_DisplayScalingExact ==
    \A i \in 1..Len(evaluated) :
        LET a == StrToDigits(evaluated[i].arg)
            d == evaluated[i].decimals
            whole == StripZeros(SubSeq(Zeros(d + 1) \o a, 1, Len(a) + 1))
            fraction == SubSeq(Zeros(d + 1) \o a, Len(a) + 2, Len(a) + d + 1)
        IN  /\ evaluated[i].fn = "formatAmount" =>
                  /\ d \in {6, 18}
                  /\ evaluated[i].value =
                        DigitsToStr(whole)
                        \o (IF AllZero(fraction) THEN <<>>
                            ELSE <<".">> \o DigitsToStr(TrimTrailingZeros(fraction)))
            /\ evaluated[i].fn = "formatPrice" =>
                  /\ d = 18
                  /\ evaluated[i].value =
                        DigitsToStr(whole) \o <<".">> \o DigitsToStr(SubSeq(fraction, 1, 6))

\* An amount of 18 decimals above one token whose fraction needs both the
\* left padding and the removal of trailing zeros.
C35_Witness ==
    \E i \in 1..Len(evaluated) :
        /\ evaluated[i].fn = "formatAmount"
        /\ evaluated[i].decimals = 18
        /\ Len(evaluated[i].value) > 3
        /\ evaluated[i].value[1] # "0"
        /\ evaluated[i].value[2] = "."
        /\ evaluated[i].value[3] = "0"
        /\ Len(evaluated[i].value) < 20
        /\ Len(evaluated[i].arg) = 19

\* C34: GET /kyc/status/:userAddress answers a verification query that
\* failed with success = false and an error message, and answers
\* success = true only when the query returned the identity's state, which
\* it then reports.
C34_StatusReportsFailedQuery ==
    \A i \in 1..Len(http) :
        http[i].route = "kyc/status" =>
            /\ http[i].requests[1].outcome # "ok" =>
                  /\ http[i].response.success = FALSE
                  /\ http[i].response.error # Undefined
            /\ http[i].response.success = TRUE =>
                  /\ http[i].requests[1].outcome = "ok"
                  /\ http[i].response.isVerified = http[i].registered

\* Buy event n has a row in order_book.
Recorded(n) ==
    \E row \in BagToSet(order_book) :
        <<row.user_address, row.event_type, row.sequence_number>>
            = DedupKey(FormattedEvents["BuyOrderCreated"][n])

\* Invocation c is in progress with buy event n in the page it fetched.
Holds(c, n) ==
    /\ Running(c)
    /\ \E i \in 1..Len(cyc[c].buyOrderEvents) :
          cyc[c].buyOrderEvents[i] = FormattedEvents["BuyOrderCreated"][n]

\* Buy event n left the fetched window without a row, and no invocation in
\* progress fetched it while it was in the window.
PushedOut(n) ==
    /\ emitted["BuyOrderCreated"] > n + PageLimit
    /\ ~Recorded(n)
    /\ \A c \in Slots : ~Holds(c, n)

\* C33: with finitely many failed fetches, existence checks and inserts,
\* every emitted event eventually has a row unless it left the fetched
\* window first; an event that left the window without a row stays without
\* one for ever.
C33_EventualIngestion ==
    /\ \A n \in 0..PageLimit :
          (emitted["BuyOrderCreated"] > n) ~> (Recorded(n) \/ PushedOut(n))
    /\ [][\A n \in 0..PageLimit : PushedOut(n) => PushedOut(n)' /\ ~Recorded(n)']_vars

\* The oldest event was pushed out unrecorded, the event that pushed it out
\* is recorded, and a later event got its row after failed calls.
C33_Witness ==
    /\ PushedOut(0)
    /\ Recorded(PageLimit)
    /\ Recorded(1)
    /\ faults = MaxFaults
====
